---------------------------- MODULE Spec2Model ----------------------------
(***************************************************************************)
(* Formatica: schema-driven forms.  This module models the rule evaluator, *)
(* option resolver and schema normalizer of lib/utils.ts, the validators   *)
(* of lib/validator.ts and the form controller made of Formatica.svelte,   *)
(* FormSection.svelte and FormField.svelte.                                *)
(*                                                                         *)
(* JavaScript values are tagged records.  A string is a sequence of        *)
(* tokens, so that splitting a dot-path, joining a composite key and       *)
(* converting a value to a property key are computed, not assumed.         *)
(***************************************************************************)
EXTENDS Integers, Sequences, FiniteSets, TLC

VARIABLES
    args,        \* inputs of the pure function under check
    ret,         \* what the last call of a pure function returned
    schema,      \* Formatica prop `schema`
    initialData, \* Formatica prop `initialData` (owned by the caller)
    formData,    \* Formatica `formData`
    aliased,     \* section keys whose object formData shares with initialData
    errors,      \* Formatica `errors`
    rendered,    \* field paths for which a FormField is mounted
    disabledOf,  \* the `disabled` prop of each mounted FormField
    localErrors, \* the `localErrors` of each mounted FormField
    createdWith  \* the value of `initialData` when the form was created

vars == <<args, ret, schema, initialData, formData, aliased, errors, rendered, disabledOf,
          localErrors, createdWith>>

----------------------------------------------------------------------------
(* JavaScript values *)

Undef == [t |-> "undefined"]
Null == [t |-> "null"]
Throw == [t |-> "throw"]
Str(s) == [t |-> "string", v |-> s]
Num(n) == [t |-> "number", v |-> n]
Bool(b) == [t |-> "boolean", v |-> b]
Arr(a) == [t |-> "array", v |-> a]
Obj(f) == [t |-> "object", v |-> f]

True == Bool(TRUE)
False == Bool(FALSE)
EmptyObj == Obj([k \in {} |-> Undef])

\* a one-token string, as a string and as a property key
Tok(x) == <<x>>
S(x) == Str(Tok(x))
K(x) == Tok(x)
\* the property key "ui:<name>"
UI(x) == <<"ui:", x>>
\* the dotted string "<a>.<b>"
Dot(a, b) == a \o <<".">> \o b

\* ToBoolean
Truthy(v) ==
    CASE v.t = "undefined" -> FALSE
      [] v.t = "null" -> FALSE
      [] v.t = "string" -> v.v # <<>>
      [] v.t = "number" -> v.v # 0
      [] v.t = "boolean" -> v.v
      [] OTHER -> TRUE

\* a === b ; Array.prototype.includes agrees with it on every value but NaN.
\* Objects and arrays are equal only to themselves, and a value of the form
\* data is never the same object as a literal of the schema.
StrictEquals(a, b) ==
    /\ a.t \notin {"object", "array"}
    /\ a = b

Includes(arr, x) == \E i \in 1..Len(arr) : StrictEquals(arr[i], x)

\* obj[key]: reading a property of undefined or null is a TypeError
GetProp(cur, key) ==
    CASE cur.t \in {"undefined", "null", "throw"} -> Throw
      [] cur.t = "object" -> IF key \in DOMAIN cur.v THEN cur.v[key] ELSE Undef
      [] cur.t \in {"string", "array"} ->
            IF key = Tok("length") THEN Num(Len(cur.v)) ELSE Undef
      [] OTHER -> Undef

----------------------------------------------------------------------------
(* lib/utils.ts: path utility *)

RECURSIVE SplitFrom(_, _, _)
\* the keys of path[i..], `cur` being the key read so far
SplitFrom(path, i, cur) ==
    IF i > Len(path) THEN <<cur>>
    ELSE IF path[i] = "." THEN <<cur>> \o SplitFrom(path, i + 1, <<>>)
    ELSE SplitFrom(path, i + 1, Append(cur, path[i]))

\* path.split('.')
Split(path) == SplitFrom(path, 1, <<>>)

\* one step of the reduce in getNestedValue without its `current &&` guard
NestedStepUnguarded(current, key) ==
    LET p == GetProp(current, key)
    IN  IF p = Throw THEN Throw ELSE p

\* current && current[key] !== undefined ? current[key] : undefined
NestedStep(current, key) ==
    IF current = Throw THEN Throw
    ELSE IF ~Truthy(current) THEN Undef
    ELSE LET p == GetProp(current, key)
         IN  IF p = Throw THEN Throw
             ELSE IF p # Undef THEN p ELSE Undef

RECURSIVE NestedReduce(_, _, _)
NestedReduce(current, keys, i) ==
    IF i > Len(keys) THEN current
    ELSE NestedReduce(NestedStep(current, keys[i]), keys, i + 1)

getNestedValue(obj, path) == NestedReduce(obj, Split(path), 1)

----------------------------------------------------------------------------
(* lib/utils.ts: condition evaluator *)

NaN == [nan |-> TRUE, n |-> 0]
Finite(n) == [nan |-> FALSE, n |-> n]

Digits == [k \in {Tok("0"), Tok("1"), Tok("2"), Tok("3")} |->
             CASE k = Tok("0") -> 0 [] k = Tok("1") -> 1
               [] k = Tok("2") -> 2 [] OTHER -> 3]

\* ToNumber of a string
StrToNumber(s) ==
    IF s = <<>> THEN Finite(0)
    ELSE IF s \in DOMAIN Digits THEN Finite(Digits[s])
    ELSE NaN

\* ToNumber, as the relational operators apply it to a non-number operand
ToNumber(v) ==
    CASE v.t = "number" -> Finite(v.v)
      [] v.t = "string" -> StrToNumber(v.v)
      [] v.t = "boolean" -> Finite(IF v.v THEN 1 ELSE 0)
      [] v.t = "null" -> Finite(0)
      [] v.t = "array" ->
            IF Len(v.v) = 0 THEN Finite(0)
            ELSE IF Len(v.v) > 1 THEN NaN
            ELSE IF v.v[1].t \in {"undefined", "null"} THEN Finite(0)
            ELSE IF v.v[1].t = "number" THEN Finite(v.v[1].v)
            ELSE IF v.v[1].t = "string" THEN StrToNumber(v.v[1].v)
            ELSE NaN
      [] OTHER -> NaN

\* a number against a string operand is compared numerically as well
GreaterThan(x, operand) ==
    LET r == ToNumber(operand) IN ~r.nan /\ x > r.n

LessThan(x, operand) ==
    LET r == ToNumber(operand) IN ~r.nan /\ x < r.n

\* case 'in'
OpIn(fieldValue, value) ==
    value.t = "array" /\ Includes(value.v, fieldValue)

\* 'not_in' written as the negation of 'in'
OpNotInNegated(fieldValue, value) == ~OpIn(fieldValue, value)

\* case 'not_in'
OpNotIn(fieldValue, value) ==
    value.t = "array" /\ ~Includes(value.v, fieldValue)

\* 'exists' written as a truthiness test
OpExistsTruthy(fieldValue) == Truthy(fieldValue)

\* case 'exists'
OpExists(fieldValue) ==
    fieldValue # Undef /\ fieldValue # Null /\ fieldValue # Str(<<>>)

\* case 'not_exists'
OpNotExists(fieldValue) ==
    fieldValue = Undef \/ fieldValue = Null \/ fieldValue = Str(<<>>)

KnownOperators ==
    {S("equals"), S("not_equals"), S("in"), S("not_in"), S("greater_than"),
     S("less_than"), S("exists"), S("not_exists")}

\* the switch of evaluateCondition, applied to the resolved value
ApplyOperator(operator, fieldValue, value) ==
    CASE operator = S("equals") -> StrictEquals(fieldValue, value)
      [] operator = S("not_equals") -> ~StrictEquals(fieldValue, value)
      [] operator = S("in") -> OpIn(fieldValue, value)
      [] operator = S("not_in") -> OpNotIn(fieldValue, value)
      [] operator = S("greater_than") ->
            fieldValue.t = "number" /\ GreaterThan(fieldValue.v, value)
      [] operator = S("less_than") ->
            fieldValue.t = "number" /\ LessThan(fieldValue.v, value)
      [] operator = S("exists") -> OpExists(fieldValue)
      [] operator = S("not_exists") -> OpNotExists(fieldValue)
      [] OTHER -> TRUE

\* returns True or False, or Throw when the lookup raised
evaluateCondition(condition, data) ==
    LET field == GetProp(condition, K("field"))
    IN  IF field.t # "string" THEN Throw
        ELSE LET fieldValue == getNestedValue(data, field.v)
             IN  IF fieldValue = Throw THEN Throw
                 ELSE Bool(ApplyOperator(GetProp(condition, K("operator")),
                                         fieldValue,
                                         GetProp(condition, K("value"))))

----------------------------------------------------------------------------
(* lib/utils.ts: rule aggregator *)

RECURSIVE Every(_, _, _)
\* conditions.every(c => evaluateCondition(c, formData)), from index i
Every(conditions, data, i) ==
    IF i > Len(conditions) THEN True
    ELSE LET r == evaluateCondition(conditions[i], data)
         IN  IF r = Throw THEN Throw
             ELSE IF r = False THEN False
             ELSE Every(conditions, data, i + 1)

RECURSIVE Some(_, _, _)
\* conditions.some(c => evaluateCondition(c, formData)), from index i
Some(conditions, data, i) ==
    IF i > Len(conditions) THEN False
    ELSE LET r == evaluateCondition(conditions[i], data)
         IN  IF r = Throw THEN Throw
             ELSE IF r = True THEN True
             ELSE Some(conditions, data, i + 1)

\* const { logic = 'and' } = uiConditions: the default replaces undefined only
LogicOf(logic) == IF logic = Undef THEN S("and") ELSE logic

\* !uiConditions.conditions
NoConditions(conditions) == ~Truthy(conditions)

evaluateUIConditions(uiConditions, data, defaultValue) ==
    IF ~Truthy(uiConditions) THEN Bool(defaultValue)
    ELSE LET conditions == GetProp(uiConditions, K("conditions"))
             logic == LogicOf(GetProp(uiConditions, K("logic")))
         IN  IF NoConditions(conditions) THEN Bool(defaultValue)
             ELSE IF logic \notin {S("and"), S("or")} THEN Bool(defaultValue)
             ELSE IF conditions.t # "array" THEN Throw
             ELSE IF logic = S("and") THEN Every(conditions.v, data, 1)
             ELSE Some(conditions.v, data, 1)

shouldShowSection(section, data) ==
    evaluateUIConditions(GetProp(section, UI("show")), data, TRUE)

shouldDisableSection(section, data) ==
    evaluateUIConditions(GetProp(section, UI("disabled")), data, FALSE)

shouldShowField(field, data) ==
    evaluateUIConditions(GetProp(field, UI("show")), data, TRUE)

\* the field's own rule alone, the section's state ignored
shouldDisableFieldOwnRule(field, data, sectionDisabled) ==
    evaluateUIConditions(GetProp(field, UI("disabled")), data, FALSE)

\* sectionDisabled || evaluateUIConditions(field['ui:disabled'], formData, false)
shouldDisableField(field, data, sectionDisabled) ==
    IF sectionDisabled THEN True
    ELSE evaluateUIConditions(GetProp(field, UI("disabled")), data, FALSE)

----------------------------------------------------------------------------
(* lib/utils.ts and FormField.svelte: option resolver *)

DigitTok(d) ==
    CASE d = 0 -> "0" [] d = 1 -> "1" [] d = 2 -> "2" [] d = 3 -> "3" [] d = 4 -> "4"
      [] d = 5 -> "5" [] d = 6 -> "6" [] d = 7 -> "7" [] d = 8 -> "8" [] OTHER -> "9"

RECURSIVE NumToString(_)
\* String(n) of a natural number, one token per digit
NumToString(n) ==
    IF n < 10 THEN <<DigitTok(n)>>
    ELSE Append(NumToString(n \div 10), DigitTok(n % 10))

RECURSIVE JoinFrom(_, _)
\* Array.prototype.join(',') of primitives, from index i
JoinFrom(a, i) ==
    IF i > Len(a) THEN <<>>
    ELSE LET x == a[i]
             head == CASE x.t = "string" -> x.v
                       [] x.t = "number" -> NumToString(x.v)
                       [] x.t = "boolean" -> IF x.v THEN Tok("true") ELSE Tok("false")
                       [] OTHER -> <<>>
         IN  IF i = Len(a) THEN head ELSE head \o <<",">> \o JoinFrom(a, i + 1)

\* ToPropertyKey: the key that obj[v] reads
PropertyKey(v) ==
    CASE v.t = "string" -> v.v
      [] v.t = "number" -> NumToString(v.v)
      [] v.t = "boolean" -> IF v.v THEN Tok("true") ELSE Tok("false")
      [] v.t = "undefined" -> Tok("undefined")
      [] v.t = "null" -> Tok("null")
      [] v.t = "array" -> JoinFrom(v.v, 1)
      [] OTHER -> Tok("[object Object]")

\* returns the mapping entry, Null, or Throw
getDynamicEnumOptions(field, data) ==
    LET enumSource == GetProp(field, UI("enumSource"))
    IN  IF ~Truthy(enumSource) THEN Null
        ELSE LET sourceField == GetProp(enumSource, K("field"))
                 mapping == GetProp(enumSource, K("mapping"))
             IN  IF sourceField.t # "string" THEN Throw
                 ELSE LET sourceValue == getNestedValue(data, sourceField.v)
                      IN  IF sourceValue = Throw THEN Throw
                          ELSE IF ~Truthy(sourceValue) THEN Null
                          ELSE LET entry == GetProp(mapping, PropertyKey(sourceValue))
                               IN  IF entry = Throw THEN Throw
                                   ELSE IF Truthy(entry) THEN entry
                                   ELSE Null

\* getInputType with the enum test as the last test of the default branch
getInputTypeEnumLast(field) ==
    LET widget == GetProp(field, UI("widget"))
        type == GetProp(field, K("type"))
        format == GetProp(field, K("format"))
    IN  IF Truthy(widget) THEN widget
        ELSE IF type \in {S("integer"), S("number")} THEN S("text")
        ELSE IF type = S("boolean") THEN S("checkbox")
        ELSE IF format = S("date") THEN S("date")
        ELSE IF format = S("email") THEN S("email")
        ELSE IF format \in {S("uri"), S("url")} THEN S("url")
        ELSE IF Truthy(GetProp(field, K("enum"))) THEN S("select")
        ELSE S("text")

getInputType(field) ==
    LET widget == GetProp(field, UI("widget"))
        type == GetProp(field, K("type"))
        format == GetProp(field, K("format"))
    IN  IF Truthy(widget) THEN widget
        ELSE IF Truthy(GetProp(field, K("enum"))) THEN S("select")
        ELSE IF type \in {S("integer"), S("number")} THEN S("text")
        ELSE IF type = S("boolean") THEN S("checkbox")
        ELSE IF format = S("date") THEN S("date")
        ELSE IF format = S("email") THEN S("email")
        ELSE IF format \in {S("uri"), S("url")} THEN S("url")
        ELSE S("text")

\* dynamicOptions?.enum
OptionalProp(v, key) ==
    IF v \in {Undef, Null} THEN Undef ELSE GetProp(v, key)

\* $: enumOptions = dynamicOptions?.enum || field.enum || (... ? [true, false] : [])
enumOptions(field, data) ==
    LET dynamicOptions == getDynamicEnumOptions(field, data)
    IN  IF dynamicOptions = Throw THEN Throw
        ELSE IF Truthy(OptionalProp(dynamicOptions, K("enum")))
             THEN OptionalProp(dynamicOptions, K("enum"))
        ELSE IF Truthy(GetProp(field, K("enum"))) THEN GetProp(field, K("enum"))
        ELSE IF GetProp(field, K("type")) = S("boolean") /\ getInputType(field) = S("radio")
             THEN Arr(<<True, False>>)
        ELSE Arr(<<>>)

\* $: enumNames = dynamicOptions?.enumNames || field.enumNames || (... ? ['Yes', 'No'] : enumOptions)
enumNames(field, data) ==
    LET dynamicOptions == getDynamicEnumOptions(field, data)
    IN  IF dynamicOptions = Throw THEN Throw
        ELSE IF Truthy(OptionalProp(dynamicOptions, K("enumNames")))
             THEN OptionalProp(dynamicOptions, K("enumNames"))
        ELSE IF Truthy(GetProp(field, K("enumNames"))) THEN GetProp(field, K("enumNames"))
        ELSE IF GetProp(field, K("type")) = S("boolean") /\ getInputType(field) = S("radio")
             THEN Arr(<<S("Yes"), S("No")>>)
        ELSE enumOptions(field, data)

\* arr[i] of JavaScript, i counted from 0
ElementAt(arr, i) ==
    IF arr.t = "array" /\ i + 1 \in 1..Len(arr.v) THEN arr.v[i + 1] ELSE Undef

\* the text a template expression {v} shows
TextOf(v) == IF v \in {Undef, Null} THEN Str(<<>>) ELSE Str(PropertyKey(v))

\* {enumNames[i] || option} of the option and radio each-blocks
optionLabel(field, data, i) ==
    LET name == ElementAt(enumNames(field, data), i)
    IN  IF Truthy(name) THEN TextOf(name)
        ELSE TextOf(ElementAt(enumOptions(field, data), i))

\* the labels of all the options offered, in order
optionLabels(field, data) ==
    IF enumOptions(field, data) = Throw THEN Throw
    ELSE Arr([i \in 1..Len(enumOptions(field, data).v) |-> optionLabel(field, data, i - 1)])

----------------------------------------------------------------------------
(* lib/utils.ts: schema normalizer *)

\* Object.keys / Object.entries enumerate string keys in insertion order.  The
\* schemas drawn below are written with their keys in the order of TokenOrder,
\* so insertion order is the lexicographic order of the token ranks.
TokenOrder == <<".", "a", "b", "f", "f1", "f2", "g", "s1", "s2", "x", "y", "z">>

TokenRank(tok) ==
    IF \E i \in 1..Len(TokenOrder) : TokenOrder[i] = tok
    THEN CHOOSE i \in 1..Len(TokenOrder) : TokenOrder[i] = tok
    ELSE 0

RECURSIVE KeyBefore(_, _)
KeyBefore(a, b) ==
    IF a = <<>> THEN b # <<>>
    ELSE IF b = <<>> THEN FALSE
    ELSE IF TokenRank(Head(a)) # TokenRank(Head(b)) THEN TokenRank(Head(a)) < TokenRank(Head(b))
    ELSE KeyBefore(Tail(a), Tail(b))

RECURSIVE KeysInOrder(_)
KeysInOrder(keys) ==
    IF keys = {} THEN <<>>
    ELSE LET first == CHOOSE k \in keys : \A j \in keys : ~KeyBefore(j, k)
         IN  <<first>> \o KeysInOrder(keys \ {first})

\* Object.keys(obj)
ObjectKeys(obj) == KeysInOrder(DOMAIN obj.v)

RECURSIVE JsonClone(_)
\* JSON.parse(JSON.stringify(v)): a property holding undefined is dropped and
\* an undefined array element becomes null; stringify(undefined) is undefined,
\* which JSON.parse rejects
JsonClone(v) ==
    CASE v.t = "object" ->
            Obj([k \in {j \in DOMAIN v.v : v.v[j] # Undef} |-> JsonClone(v.v[k])])
      [] v.t = "array" ->
            Arr([i \in 1..Len(v.v) |-> IF v.v[i] = Undef THEN Null ELSE JsonClone(v.v[i])])
      [] v.t = "undefined" -> Throw
      [] OTHER -> v

\* cleanSchema = schema: the copy left out, the input worked on in place
CloneIsTheInput(v) == v.t \in {"object", "array"}

\* whether the object JSON.parse(JSON.stringify(v)) returns is v itself or
\* holds an object of v: it never does, every object of the copy is new
CloneIsInput(v) == FALSE

\* key.startsWith('ui:')
IsUIKey(key) == key # <<>> /\ Head(key) = "ui:"

\* typeof v === 'object'
TypeofObject(v) == v.t \in {"object", "array", "null"}

\* Object.entries(section.properties) raises on undefined and null, and so does
\* reading .properties of a section that is undefined or null
SectionRaises(section) ==
    \/ section.t \in {"undefined", "null"}
    \/ GetProp(section, K("properties")).t \in {"undefined", "null"}

\* the entries of section.properties; only objects have entries here
SectionEntryKeys(section) ==
    IF GetProp(section, K("properties")).t = "object"
    THEN ObjectKeys(GetProp(section, K("properties")))
    ELSE <<>>

\* fullKey = key: the section id left out
FullKeyFieldOnly(section, key) == key

\* `${section.id}.${key}`
FullKey(section, key) == Dot(PropertyKey(GetProp(section, K("id"))), key)

RECURSIVE FlatEntriesOf(_, _, _)
\* <<fullKey, field>> for the fields of one section, from the i-th key
FlatEntriesOf(section, keys, i) ==
    IF i > Len(keys) THEN <<>>
    ELSE <<[key |-> FullKey(section, keys[i]),
            field |-> GetProp(section, K("properties")).v[keys[i]]]>>
         \o FlatEntriesOf(section, keys, i + 1)

RECURSIVE FlatEntries(_, _)
\* the pairs the nested forEach of the flattening visits, in its order
FlatEntries(sections, i) ==
    IF i > Len(sections) THEN <<>>
    ELSE FlatEntriesOf(sections[i], SectionEntryKeys(sections[i]), 1)
         \o FlatEntries(sections, i + 1)

\* if (field.required)
RequiredIsTruthy(field) == Truthy(GetProp(field, K("required")))

RECURSIVE RequiredOf(_, _)
\* the keys pushed on obj.required, from the i-th entry
RequiredOf(entries, i) ==
    IF i > Len(entries) THEN <<>>
    ELSE (IF RequiredIsTruthy(entries[i].field) THEN <<Str(entries[i].key)>> ELSE <<>>)
         \o RequiredOf(entries, i + 1)

RECURSIVE removeUIProps(_)
RECURSIVE stripUIExtensions(_)

\* the flattening of an object that holds a `sections` array; a later entry
\* under the same fullKey replaces an earlier one
FlattenSections(obj) ==
    LET sections == GetProp(obj, K("sections")).v
        entries == FlatEntries(sections, 1)
        last(key) == CHOOSE i \in 1..Len(entries) :
                        /\ entries[i].key = key
                        /\ \A j \in (i + 1)..Len(entries) : entries[j].key # key
        properties == [key \in {entries[i].key : i \in 1..Len(entries)} |->
                          stripUIExtensions(entries[last(key)].field)]
    IN  IF \E i \in 1..Len(sections) : SectionRaises(sections[i]) THEN Throw
        ELSE IF \E key \in DOMAIN properties : properties[key] = Throw THEN Throw
        ELSE Obj([k \in (DOMAIN obj.v \ {K("sections")}) \cup {K("properties"), K("required")} |->
                    IF k = K("properties") THEN Obj(properties)
                    ELSE IF k = K("required") THEN Arr(RequiredOf(entries, 1))
                    ELSE obj.v[k]])

\* the obj that removeUIProps(obj) leaves behind, or Throw
removeUIProps(obj) ==
    IF obj.t = "array" THEN
        LET items == [i \in 1..Len(obj.v) |->
                        IF TypeofObject(obj.v[i]) THEN removeUIProps(obj.v[i]) ELSE obj.v[i]]
        IN  IF \E i \in 1..Len(obj.v) : items[i] = Throw THEN Throw ELSE Arr(items)
    ELSE IF obj.t = "object" THEN
        LET kept == [k \in {j \in DOMAIN obj.v : ~IsUIKey(j)} |->
                        IF TypeofObject(obj.v[k]) THEN removeUIProps(obj.v[k]) ELSE obj.v[k]]
        IN  IF \E k \in DOMAIN kept : kept[k] = Throw THEN Throw
            ELSE IF GetProp(Obj(kept), K("sections")).t = "array"
                 THEN FlattenSections(Obj(kept))
            ELSE Obj(kept)
    ELSE obj

stripUIExtensions(sch) ==
    IF JsonClone(sch) = Throw THEN Throw ELSE removeUIProps(JsonClone(sch))

\* what a call of stripUIExtensions leaves: the value returned (val), the
\* caller's schema after the call (input) and whether the two share an object.
\* Every write of removeUIProps goes to cleanSchema, so the caller's schema
\* changes exactly when cleanSchema is the caller's object.
stripEffect(sch) ==
    [val |-> stripUIExtensions(sch),
     input |-> IF CloneIsInput(sch) /\ stripUIExtensions(sch) # Throw
               THEN stripUIExtensions(sch) ELSE sch,
     shares |-> CloneIsInput(sch)]

----------------------------------------------------------------------------
(* lib/validator.ts: the structural engine (Ajv, JSON Schema draft-07) as    *)
(* createValidator configures it: allErrors, and strict: false, which lets   *)
(* unknown keywords and formats pass but leaves validateSchema on, so that   *)
(* compile() checks the schema against the draft-07 meta-schema.  No format  *)
(* is registered, so `format` is never checked.                              *)

SimpleTypes == {"array", "boolean", "integer", "null", "number", "object", "string"}

HasKey(sch, key) == sch.t = "object" /\ key \in DOMAIN sch.v

\* new RegExp(pattern) raises on an unbalanced group
RegExpRaises(pattern) == \E i \in 1..Len(pattern) : pattern[i] = "("

\* regex.test(str), for a literal with or without the anchors ^ and $
RegExpTest(pattern, str) ==
    IF Len(pattern) >= 2 /\ Head(pattern) = "^" /\ pattern[Len(pattern)] = "$"
    THEN str = SubSeq(pattern, 2, Len(pattern) - 1)
    ELSE \E i \in 1..(Len(str) + 1) :
            /\ i + Len(pattern) - 1 <= Len(str)
            /\ SubSeq(str, i, i + Len(pattern) - 1) = pattern

\* the meta-schema's stringArray: an array of strings
IsStringArray(v) == v.t = "array" /\ \A i \in 1..Len(v.v) : v.v[i].t = "string"

RECURSIVE CompileRaises(_)
\* ajv.compile(sch) raises: the schema is not an object or boolean, a keyword
\* has a value the meta-schema rejects ("schema is invalid: ..."), or a pattern
\* is not a regular expression
CompileRaises(sch) ==
    IF sch.t = "boolean" THEN FALSE
    ELSE IF sch.t # "object" THEN TRUE
    ELSE LET type == GetProp(sch, K("type"))
             properties == GetProp(sch, K("properties"))
         IN  \/ HasKey(sch, K("type")) /\
                    ~ \/ type.t = "string" /\ Len(type.v) = 1 /\ type.v[1] \in SimpleTypes
                      \/ IsStringArray(type) /\ \A i \in 1..Len(type.v) :
                            Len(type.v[i].v) = 1 /\ type.v[i].v[1] \in SimpleTypes
             \/ HasKey(sch, K("required")) /\ ~IsStringArray(GetProp(sch, K("required")))
             \/ HasKey(sch, K("enum")) /\ GetProp(sch, K("enum")).t # "array"
             \/ HasKey(sch, K("minimum")) /\ GetProp(sch, K("minimum")).t # "number"
             \/ HasKey(sch, K("maximum")) /\ GetProp(sch, K("maximum")).t # "number"
             \/ HasKey(sch, K("title")) /\ GetProp(sch, K("title")).t # "string"
             \/ HasKey(sch, K("pattern")) /\
                    \/ GetProp(sch, K("pattern")).t # "string"
                    \/ RegExpRaises(GetProp(sch, K("pattern")).v)
             \/ HasKey(sch, K("properties")) /\
                    \/ properties.t # "object"
                    \/ \E k \in DOMAIN properties.v : CompileRaises(properties.v[k])
             \/ HasKey(sch, K("additionalProperties")) /\
                    CompileRaises(GetProp(sch, K("additionalProperties")))

\* the engine's equality for `enum`: same type and same content
DeepEqual(a, b) == a.t = b.t /\ a = b

\* one entry of validate.errors
AjvError(instancePath, keyword, param) ==
    [instancePath |-> instancePath, keyword |-> keyword, param |-> param]

\* the JSON type check of the keyword `type`
DataHasType(data, type) ==
    CASE type = "string" -> data.t = "string"
      [] type = "number" -> data.t = "number"
      [] type = "integer" -> data.t = "number"
      [] type = "boolean" -> data.t = "boolean"
      [] type = "object" -> data.t = "object"
      [] type = "array" -> data.t = "array"
      [] OTHER -> data.t = "null"

RECURSIVE SelectErrors(_, _, _)
\* the concatenation of f[keys[i]], f[keys[i+1]], ...
SelectErrors(f, keys, i) ==
    IF i > Len(keys) THEN <<>> ELSE f[keys[i]] \o SelectErrors(f, keys, i + 1)

RECURSIVE AjvValidate(_, _, _)
\* validate.errors of the compiled schema for `data` at instancePath, in the
\* order the generated code reports them: the keywords of the data's own type
\* (or the type error), then the keywords that apply to every type
AjvValidate(sch, data, instancePath) ==
    IF sch.t # "object" THEN
        (IF sch = False THEN <<AjvError(instancePath, "false schema", Undef)>> ELSE <<>>)
    ELSE
    LET type == GetProp(sch, K("type"))
        typeErrors ==
            IF type.t = "string" /\ ~DataHasType(data, type.v[1])
            THEN <<AjvError(instancePath, "type", type)>> ELSE <<>>
        maximum == GetProp(sch, K("maximum"))
        minimum == GetProp(sch, K("minimum"))
        numberErrors ==
            IF data.t # "number" THEN <<>>
            ELSE (IF maximum.t = "number" /\ data.v > maximum.v
                  THEN <<AjvError(instancePath, "maximum", maximum)>> ELSE <<>>)
              \o (IF minimum.t = "number" /\ data.v < minimum.v
                  THEN <<AjvError(instancePath, "minimum", minimum)>> ELSE <<>>)
        pattern == GetProp(sch, K("pattern"))
        stringErrors ==
            IF data.t = "string" /\ pattern.t = "string" /\ ~RegExpTest(pattern.v, data.v)
            THEN <<AjvError(instancePath, "pattern", pattern)>> ELSE <<>>
        required == GetProp(sch, K("required"))
        missing == IF data.t = "object" /\ required.t = "array"
                   THEN SelectSeq(required.v, LAMBDA r : GetProp(data, r.v) = Undef)
                   ELSE <<>>
        requiredErrors == [i \in 1..Len(missing) |-> AjvError(instancePath, "required", missing[i])]
        properties == GetProp(sch, K("properties"))
        declared == IF properties.t = "object" THEN DOMAIN properties.v ELSE {}
        additional == GetProp(sch, K("additionalProperties"))
        extraKeys == IF data.t = "object" /\ additional # Undef
                     THEN DOMAIN data.v \ declared ELSE {}
        extraErrors == [k \in extraKeys |->
                            AjvValidate(additional, data.v[k], instancePath \o <<"/">> \o k)]
        presentKeys == IF data.t = "object"
                       THEN {k \in declared : GetProp(data, k) # Undef} ELSE {}
        propertyErrors == [k \in presentKeys |->
                            AjvValidate(properties.v[k], data.v[k], instancePath \o <<"/">> \o k)]
        enum == GetProp(sch, K("enum"))
        enumErrors ==
            IF enum.t = "array" /\ ~ \E i \in 1..Len(enum.v) : DeepEqual(enum.v[i], data)
            THEN <<AjvError(instancePath, "enum", enum)>> ELSE <<>>
    IN  numberErrors \o stringErrors \o requiredErrors
        \o SelectErrors(extraErrors, KeysInOrder(extraKeys), 1)
        \o SelectErrors(propertyErrors, KeysInOrder(presentKeys), 1)
        \o typeErrors \o enumErrors

\* createValidator with removeAdditional: 'all' added to its options
AjvOptionsRemovingAdditional ==
    [allErrors |-> TRUE, verbose |-> TRUE, strict |-> FALSE, removeAdditional |-> TRUE]

\* the options createValidator passes to the engine; of the options that let
\* validate() write to the data (removeAdditional, useDefaults, coerceTypes)
\* it sets none, and removeAdditional stands for them here
AjvOptions ==
    [allErrors |-> TRUE, verbose |-> TRUE, strict |-> FALSE, removeAdditional |-> FALSE]

RECURSIVE AjvDataAfter(_, _)
\* the data as validate(data) leaves it: with removeAdditional every property
\* that `properties` does not declare is deleted from the data
AjvDataAfter(sch, data) ==
    IF AjvOptions.removeAdditional /\ data.t = "object"
          /\ GetProp(sch, K("properties")).t = "object"
    THEN Obj([k \in DOMAIN data.v \cap DOMAIN GetProp(sch, K("properties")).v |->
                AjvDataAfter(GetProp(sch, K("properties")).v[k], data.v[k])])
    ELSE data

\* error.message, the engine's own text
AjvMessage(error) ==
    CASE error.keyword = "required" ->
            Str(<<"must have required property '">> \o error.param.v \o <<"'">>)
      [] error.keyword = "type" -> Str(<<"must be ">> \o error.param.v)
      [] error.keyword = "enum" -> Str(<<"must be equal to one of the allowed values">>)
      [] error.keyword = "maximum" -> Str(<<"must be <= ">> \o NumToString(error.param.v))
      [] error.keyword = "minimum" -> Str(<<"must be >= ">> \o NumToString(error.param.v))
      [] error.keyword = "pattern" ->
            Str(<<"must match pattern \"">> \o error.param.v \o <<"\"">>)
      [] OTHER -> Str(<<"boolean schema is false">>)

----------------------------------------------------------------------------
(* lib/validator.ts: validateFormData and validateField *)

RECURSIVE GroupDigits(_)
\* the digits of a natural number with a separator before every group of three
GroupDigits(digits) ==
    IF Len(digits) <= 3 THEN digits
    ELSE GroupDigits(SubSeq(digits, 1, Len(digits) - 3))
         \o <<",">> \o SubSeq(digits, Len(digits) - 2, Len(digits))

\* n.toLocaleString() (grouping as in the en-US locale)
ToLocaleString(n) == GroupDigits(NumToString(n))

\* String(n)
ToPlainString(n) == NumToString(n)

RECURSIVE JoinWith(_, _, _)
\* Array.prototype.join(sep), from index i
JoinWith(a, sep, i) ==
    IF i > Len(a) THEN <<>>
    ELSE IF i = Len(a) THEN PropertyKey(a[i])
    ELSE PropertyKey(a[i]) \o <<sep>> \o JoinWith(a, sep, i + 1)

\* .replace(/^\//, '')
DropLeadingSlash(instancePath) ==
    IF instancePath # <<>> /\ Head(instancePath) = "/" THEN Tail(instancePath) ELSE instancePath

\* .replace(/\//g, '.')
SlashesToDots(str) == [i \in 1..Len(str) |-> IF str[i] = "/" THEN "." ELSE str[i]]

\* error.instancePath.replace(/^\//, '').replace(/\//g, '.')
DotPathOf(instancePath) == SlashesToDots(DropLeadingSlash(instancePath))

RECURSIVE SplitOnSlash(_, _, _)
\* .split('/')
SplitOnSlash(str, i, cur) ==
    IF i > Len(str) THEN <<cur>>
    ELSE IF str[i] = "/" THEN <<cur>> \o SplitOnSlash(str, i + 1, <<>>)
    ELSE SplitOnSlash(str, i + 1, Append(cur, str[i]))

\* fieldSchema.sections.find(s => s.id === segment): the section, Undef, or Throw
FindSection(sections, segment) ==
    LET hits == {i \in 1..Len(sections.v) : GetProp(sections.v[i], K("id")) = Str(segment)}
        stop == IF hits = {} THEN Len(sections.v)
                ELSE CHOOSE i \in hits : \A j \in hits : i <= j
    IN  IF sections.t # "array" THEN Throw
        ELSE IF \E i \in 1..stop : sections.v[i].t \in {"undefined", "null"} THEN Throw
        ELSE IF hits = {} THEN Undef
        ELSE sections.v[stop]

\* one turn of the loop over the path segments
LookupStep(fieldSchema, segment) ==
    IF fieldSchema.t \in {"undefined", "null", "throw"} THEN Throw
    ELSE IF Truthy(GetProp(fieldSchema, K("properties")))
    THEN GetProp(GetProp(fieldSchema, K("properties")), segment)
    ELSE IF Truthy(GetProp(fieldSchema, K("sections")))
    THEN LET section == FindSection(GetProp(fieldSchema, K("sections")), segment)
         IN  IF section = Throw THEN Throw
             ELSE IF Truthy(section) THEN section
             ELSE fieldSchema
    ELSE fieldSchema

RECURSIVE LookupFrom(_, _, _)
LookupFrom(fieldSchema, segments, i) ==
    IF i > Len(segments) THEN fieldSchema
    ELSE LookupFrom(LookupStep(fieldSchema, segments[i]), segments, i + 1)

\* the message of a pattern failure in validateFormData, or Throw
PatternMessage(sch, instancePath) ==
    LET fieldSchema == LookupFrom(sch, SplitOnSlash(DropLeadingSlash(instancePath), 1, <<>>), 1)
    IN  IF fieldSchema = Throw THEN Throw
        ELSE IF Truthy(fieldSchema) /\ Truthy(GetProp(fieldSchema, UI("validationMessage")))
        THEN GetProp(fieldSchema, UI("validationMessage"))
        ELSE Str(<<"Invalid format">>)

\* the message the switch of validateFormData leaves for an error, or Throw
FormMessage(sch, error) ==
    CASE error.keyword = "pattern" -> PatternMessage(sch, error.instancePath)
      [] error.keyword = "minimum" ->
            Str(<<"Value must be at least ">> \o ToLocaleString(error.param.v))
      [] error.keyword = "maximum" ->
            Str(<<"Value must be at most ">> \o ToLocaleString(error.param.v))
      [] error.keyword = "enum" ->
            Str(<<"Value must be one of: ">> \o JoinWith(error.param.v, ", ", 1))
      [] error.keyword = "type" /\ Truthy(error.param) ->
            Str(<<"Value must be a ">> \o error.param.v)
      [] OTHER -> AjvMessage(error)

\* if (!errors[key]) errors[key] = []
EnsureList(errs, key) ==
    IF key \in DOMAIN errs.v THEN errs
    ELSE Obj([k \in DOMAIN errs.v \cup {key} |-> IF k = key THEN Arr(<<>>) ELSE errs.v[k]])

\* errors[key].push(message)
PushMessage(errs, key, message) ==
    Obj([k \in DOMAIN errs.v |-> IF k = key THEN Arr(Append(errs.v[k].v, message)) ELSE errs.v[k]])

\* one call of the forEach callback: the errors map it leaves, or Throw
AddError(sch, errs, error) ==
    LET path == DotPathOf(error.instancePath)
        fieldPath == IF path = <<>> THEN K("root") ELSE path
        listed == EnsureList(errs, fieldPath)
        missingProperty == error.param
        requiredPath == IF path # <<>> THEN Dot(path, missingProperty.v) ELSE missingProperty.v
    IN  IF error.keyword = "required" /\ Truthy(missingProperty)
        THEN PushMessage(EnsureList(listed, requiredPath), requiredPath,
                         Str(missingProperty.v \o <<" is required">>))
        ELSE IF FormMessage(sch, error) = Throw THEN Throw
        ELSE PushMessage(listed, fieldPath, FormMessage(sch, error))

RECURSIVE FormErrors(_, _, _, _)
\* validate.errors.forEach(...), from the i-th error
FormErrors(sch, errs, ajvErrors, i) ==
    IF errs = Throw THEN Throw
    ELSE IF i > Len(ajvErrors) THEN errs
    ELSE FormErrors(sch, AddError(sch, errs, ajvErrors[i]), ajvErrors, i + 1)

\* {valid, errors}, or Throw
validateFormData(sch, data) ==
    LET cleanSchema == stripUIExtensions(sch)
        ajvErrors == AjvValidate(cleanSchema, data, <<>>)
        errs == FormErrors(sch, EmptyObj, ajvErrors, 1)
    IN  IF cleanSchema = Throw THEN Throw
        ELSE IF CompileRaises(cleanSchema) THEN Throw
        ELSE IF errs = Throw THEN Throw
        ELSE Obj(K("valid") :> Bool(ajvErrors = <<>>) @@ K("errors") :> errs)

\* shouldFormat ? limit.toLocaleString() : String(limit)
LimitDisplay(fieldSchema, limit) ==
    IF GetProp(fieldSchema, UI("format")) # S("none")
    THEN ToLocaleString(limit) ELSE ToPlainString(limit)

\* the message validateField pushes for an error
FieldMessage(fieldSchema, error) ==
    IF Truthy(GetProp(fieldSchema, UI("validationMessage"))) /\ error.keyword = "pattern"
    THEN GetProp(fieldSchema, UI("validationMessage"))
    ELSE CASE error.keyword = "required" -> Str(<<"This field is required">>)
           [] error.keyword = "pattern" -> Str(<<"Invalid format">>)
           [] error.keyword = "minimum" ->
                 Str(<<"Value must be at least ">> \o LimitDisplay(fieldSchema, error.param.v))
           [] error.keyword = "maximum" ->
                 Str(<<"Value must be at most ">> \o LimitDisplay(fieldSchema, error.param.v))
           [] error.keyword = "enum" -> Str(<<"Please select a valid option">>)
           [] error.keyword = "type" /\ Truthy(error.param) ->
                 Str(<<"Value must be a ">> \o error.param.v)
           [] OTHER -> AjvMessage(error)

\* { ...stripped } followed by delete cleanFieldSchema.required
CleanFieldSchema(stripped) ==
    IF stripped.t = "object"
    THEN Obj([k \in DOMAIN stripped.v \ {K("required")} |-> stripped.v[k]])
    ELSE EmptyObj

\* the single-property schema built around the field
WrapperSchema(fieldSchema, cleanFieldSchema) ==
    Obj(K("type") :> S("object")
        @@ K("properties") :> Obj(K("field") :> cleanFieldSchema)
        @@ K("required") :> (IF GetProp(fieldSchema, K("required")) = True
                             THEN Arr(<<S("field")>>) ELSE Arr(<<>>)))

\* whether the call of stripUIExtensions on line 138 is inside the try block:
\* it is not, the try starts on line 153
StripIsInsideTry(fieldSchema) == FALSE

\* the list of messages, or Throw
validateField(fieldSchema, value) ==
    IF ~Truthy(fieldSchema) THEN Arr(<<>>)
    ELSE IF stripUIExtensions(fieldSchema) = Throw
    THEN (IF StripIsInsideTry(fieldSchema) THEN Arr(<<>>) ELSE Throw)
    ELSE LET wrapper == WrapperSchema(fieldSchema, CleanFieldSchema(stripUIExtensions(fieldSchema)))
             ajvErrors == AjvValidate(wrapper, Obj(K("field") :> value), <<>>)
         IN  IF CompileRaises(wrapper) THEN Arr(<<>>)
             ELSE Arr([i \in 1..Len(ajvErrors) |-> FieldMessage(fieldSchema, ajvErrors[i])])

\* what a call leaves besides its result: the caller's schema after the call.
\* Both validators write to the schema only through stripUIExtensions.
\* `data` is the caller's form data after the call: validate() is the only
\* callee that is handed it.
validateFormDataEffect(sch, data) ==
    [val |-> validateFormData(sch, data),
     input |-> stripEffect(sch).input,
     data |-> IF stripUIExtensions(sch) # Throw /\ ~CompileRaises(stripUIExtensions(sch))
              THEN AjvDataAfter(stripUIExtensions(sch), data) ELSE data]

\* validate() is handed the new object { field: value }, never the value's owner
validateFieldEffect(fieldSchema, value) ==
    [val |-> validateField(fieldSchema, value),
     input |-> IF Truthy(fieldSchema) THEN stripEffect(fieldSchema).input ELSE fieldSchema,
     data |-> value]

----------------------------------------------------------------------------
(* Bounded inputs *)

MaxArr == 2     \* longest array operand of a condition
MaxConds == 2   \* longest condition list of a rule
MaxNum == 2     \* numbers range over 0..MaxNum

\* sequences over set of length at most n
RECURSIVE SeqsUpTo(_, _)
SeqsUpTo(set, n) ==
    IF n = 0 THEN {<<>>}
    ELSE LET shorter == SeqsUpTo(set, n - 1)
         IN  shorter \cup {Append(q, x) : q \in {r \in shorter : Len(r) = n - 1}, x \in set}

\* the object with the given keys; a key whose value is `undefined` is left out
ObjOf(f) == Obj([k \in {j \in DOMAIN f : f[j] # Undef} |-> f[k]])

Numbers == {Num(n) : n \in 0..MaxNum}
LeafValues == {Null, Str(<<>>), S("a"), S("b"), True, False} \cup Numbers

\* form data: a section may be missing, null, a primitive or an object
DataInputs ==
    {EmptyObj}
    \cup {ObjOf(K("s1") :> x) : x \in {Null, Str(<<>>), S("a"), Num(0), Num(1), EmptyObj}}
    \cup {ObjOf(K("s1") :> ObjOf(K("f1") :> v)) : v \in LeafValues}
    \cup {ObjOf(K("s1") :> ObjOf(K("f1") :> v) @@ K("s2") :> ObjOf(K("f1") :> S("a")))
            : v \in {S("a"), Num(1)}}

PathInputs ==
    {Dot(K("s1"), K("f1")), Dot(K("s2"), K("f1")), K("s1"), Dot(K("s1"), K("f2")),
     Dot(Dot(K("s1"), K("f1")), K("length"))}

OperatorInputs == KnownOperators \cup {S("matches")}

OperandInputs ==
    {Undef, Null, Str(<<>>), S("a"), Num(1), True}
    \cup {Arr(a) : a \in SeqsUpTo({S("a"), Num(1), Null}, MaxArr)}

Condition(field, operator, value) ==
    ObjOf(K("field") :> Str(field) @@ K("operator") :> operator @@ K("value") :> value)

ConditionInputs ==
    {Condition(f, o, v) : f \in PathInputs, o \in OperatorInputs, v \in OperandInputs}

\* the conditions rules are built from
RuleConditions ==
    {Condition(Dot(K("s1"), K("f1")), S("equals"), S("a")),
     Condition(Dot(K("s1"), K("f1")), S("exists"), Undef),
     Condition(Dot(K("s1"), K("f1")), S("greater_than"), Num(1)),
     Condition(Dot(K("s2"), K("f1")), S("in"), Arr(<<S("a"), S("b")>>)),
     Condition(Dot(K("s1"), K("f1")), S("matches"), S("a"))}

Rule(conditions, logic) ==
    ObjOf(K("conditions") :> conditions @@ K("logic") :> logic)

LogicInputs == {Undef, Null, S("and"), S("or"), S("xor")}

RuleInputs ==
    {Undef}
    \cup {Rule(Undef, l) : l \in LogicInputs}
    \cup {Rule(Arr(c), l) : c \in SeqsUpTo(RuleConditions, MaxConds), l \in LogicInputs}

RuleData ==
    {EmptyObj, ObjOf(K("s1") :> Null)}
    \cup {ObjOf(K("s1") :> ObjOf(K("f1") :> v)) : v \in {Str(<<>>), S("a"), S("b"), Num(0), Num(2)}}
    \cup {ObjOf(K("s1") :> ObjOf(K("f1") :> v) @@ K("s2") :> ObjOf(K("f1") :> S("a")))
            : v \in {S("a"), Num(1)}}

NoCall == [fn |-> "none", val |-> Undef]
Called(fn, val) == [fn |-> fn, val |-> val]

\* the controller is not running in the specifications of the pure functions
Idle ==
    /\ schema = Undef
    /\ initialData = Undef
    /\ formData = Undef
    /\ aliased = {}
    /\ errors = EmptyObj
    /\ rendered = {}
    /\ disabledOf = <<>>
    /\ localErrors = <<>>
    /\ createdWith = Undef

IdleVars ==
    <<schema, initialData, formData, aliased, errors, rendered, disabledOf, localErrors,
      createdWith>>

----------------------------------------------------------------------------
(* Specification of the condition evaluator: one condition, one form data *)

InitCond ==
    /\ args \in [condition : ConditionInputs, data : DataInputs]
    /\ ret = NoCall
    /\ Idle

CallGetNestedValue ==
    /\ ret = NoCall
    /\ ret' = Called("getNestedValue",
                     getNestedValue(args.data, GetProp(args.condition, K("field")).v))
    /\ UNCHANGED <<args, IdleVars>>

CallEvaluateCondition ==
    /\ ret = NoCall
    /\ ret' = Called("evaluateCondition", evaluateCondition(args.condition, args.data))
    /\ UNCHANGED <<args, IdleVars>>

NextCond == CallGetNestedValue \/ CallEvaluateCondition

SpecCond == InitCond /\ [][NextCond]_vars

----------------------------------------------------------------------------
(* Specification of the rule aggregator: one rule, one form data *)

InitRule ==
    /\ args \in [rule : RuleInputs, data : RuleData, defaultValue : BOOLEAN,
                 sectionDisabled : BOOLEAN]
    /\ ret = NoCall
    /\ Idle

\* a section or a field that carries args.rule as its only rule
WithRule(key) == ObjOf(key :> args.rule)

CallEvaluateUIConditions ==
    /\ ret = NoCall
    /\ ~args.sectionDisabled
    /\ ret' = Called("evaluateUIConditions",
                     evaluateUIConditions(args.rule, args.data, args.defaultValue))
    /\ UNCHANGED <<args, IdleVars>>

CallShouldShowSection ==
    /\ ret = NoCall
    /\ ~args.sectionDisabled /\ args.defaultValue
    /\ ret' = Called("shouldShowSection", shouldShowSection(WithRule(UI("show")), args.data))
    /\ UNCHANGED <<args, IdleVars>>

CallShouldDisableSection ==
    /\ ret = NoCall
    /\ ~args.sectionDisabled /\ ~args.defaultValue
    /\ ret' = Called("shouldDisableSection",
                     shouldDisableSection(WithRule(UI("disabled")), args.data))
    /\ UNCHANGED <<args, IdleVars>>

CallShouldShowField ==
    /\ ret = NoCall
    /\ ~args.sectionDisabled /\ args.defaultValue
    /\ ret' = Called("shouldShowField", shouldShowField(WithRule(UI("show")), args.data))
    /\ UNCHANGED <<args, IdleVars>>

CallShouldDisableField ==
    /\ ret = NoCall
    /\ ~args.defaultValue
    /\ ret' = Called("shouldDisableField",
                     shouldDisableField(WithRule(UI("disabled")), args.data,
                                        args.sectionDisabled))
    /\ UNCHANGED <<args, IdleVars>>

NextRule ==
    \/ CallEvaluateUIConditions
    \/ CallShouldShowSection
    \/ CallShouldDisableSection
    \/ CallShouldShowField
    \/ CallShouldDisableField

SpecRule == InitRule /\ [][NextRule]_vars

----------------------------------------------------------------------------
(* Properties of the rule aggregator (SpecRule) *)

ConditionsOf(rule) ==
    IF rule = Undef THEN Undef ELSE GetProp(rule, K("conditions"))

HasEmptyConditionList(rule) == ConditionsOf(rule) = Arr(<<>>)

HasConditions(rule) ==
    ConditionsOf(rule).t = "array" /\ ConditionsOf(rule).v # <<>>

\* C1: a rule whose condition list is empty evaluates to the default the
\* caller passed, whatever the data and the logic mode of the rule.
C1_EmptyListGivesDefault ==
    (ret.fn = "evaluateUIConditions" /\ HasEmptyConditionList(args.rule))
        => ret.val = Bool(args.defaultValue)

\* C2: shouldDisableField is true whenever the section is disabled, and is
\* otherwise the value of the field's own ui:disabled rule with default false.
C2_SectionDisablementCascades ==
    ret.fn = "shouldDisableField" =>
        /\ args.sectionDisabled => ret.val = True
        /\ ~args.sectionDisabled =>
              ret.val = evaluateUIConditions(args.rule, args.data, FALSE)

\* a disabled section disables a field whose own rule evaluates to false
C2_Witness ==
    /\ ret.fn = "shouldDisableField"
    /\ args.sectionDisabled
    /\ HasConditions(args.rule)
    /\ evaluateUIConditions(args.rule, args.data, FALSE) = False
    /\ ret.val = True

HasUnknownOperator(rule) ==
    /\ HasConditions(rule)
    /\ \E i \in 1..Len(ConditionsOf(rule).v) :
          GetProp(ConditionsOf(rule).v[i], K("operator")) \notin KnownOperators

\* C3: a rule holding a condition with an operator outside the fixed set
\* never throws and leaves what it governs visible and enabled.
C3_UnknownOperatorDegradesToVisibleEnabled ==
    HasUnknownOperator(args.rule) =>
        /\ ret.val # Throw
        /\ ret.fn \in {"shouldShowSection", "shouldShowField"} => ret.val = True
        /\ ret.fn = "shouldDisableSection" => ret.val = False
        /\ (ret.fn = "shouldDisableField" /\ ~args.sectionDisabled) => ret.val = False

AllConditionsTrue(rule, data) ==
    \A i \in 1..Len(ConditionsOf(rule).v) :
        evaluateCondition(ConditionsOf(rule).v[i], data) = True

\* C5: a rule with a non-empty condition list whose logic mode is absent or
\* is neither 'and' nor 'or' is true iff every one of its conditions is true.
C5_OtherLogicModeIsAnd ==
    (/\ ret.fn = "evaluateUIConditions"
     /\ HasConditions(args.rule)
     /\ GetProp(args.rule, K("logic")) \notin {S("and"), S("or")})
        => ret.val = Bool(AllConditionsTrue(args.rule, args.data))

----------------------------------------------------------------------------
(* Properties of the condition evaluator (SpecCond) *)

OperatorOfArgs == GetProp(args.condition, K("operator"))
OperandOfArgs == GetProp(args.condition, K("value"))
ResolvedOfArgs == getNestedValue(args.data, GetProp(args.condition, K("field")).v)

WithOperator(condition, operator) ==
    Obj([k \in DOMAIN condition.v |->
            IF k = K("operator") THEN operator ELSE condition.v[k]])

Not(b) == IF b = True THEN False ELSE IF b = False THEN True ELSE b

\* C4: 'exists' is the negation of 'not_exists' on the same inputs, and is
\* false exactly when the resolved value is undefined, null or ''.
C4_ExistsNegatesNotExists ==
    (ret.fn = "evaluateCondition" /\ OperatorOfArgs = S("exists")) =>
        /\ ret.val \in {True, False}
        /\ ret.val = Not(evaluateCondition(WithOperator(args.condition, S("not_exists")),
                                           args.data))
        /\ ret.val = False <=> ResolvedOfArgs \in {Undef, Null, Str(<<>>)}

\* 'exists' on a value that is falsy but present: the number 0
C4_Witness ==
    /\ ret.fn = "evaluateCondition"
    /\ OperatorOfArgs = S("exists")
    /\ ResolvedOfArgs = Num(0)
    /\ ret.val = True

IsMember(x, a) == \E i \in 1..Len(a) : a[i] = x

\* C6: with an array operand 'in' is membership of the resolved value and
\* 'not_in' its negation; with any other operand both are false.
C6_InAndNotIn ==
    (ret.fn = "evaluateCondition" /\ OperatorOfArgs \in {S("in"), S("not_in")}) =>
        IF OperandOfArgs.t = "array"
        THEN ret.val = Bool(IsMember(ResolvedOfArgs, OperandOfArgs.v)
                              <=> OperatorOfArgs = S("in"))
        ELSE ret.val = False

\* 'not_in' against an operand that is not an array
C6_Witness ==
    /\ ret.fn = "evaluateCondition"
    /\ OperatorOfArgs = S("not_in")
    /\ OperandOfArgs = S("a")
    /\ ResolvedOfArgs = S("b")
    /\ ret.val = False

RECURSIVE KeyMissingFrom(_, _, _)
\* some key of keys[i..] is not there to read when the path is walked from v
KeyMissingFrom(v, keys, i) ==
    IF i > Len(keys) THEN FALSE
    ELSE IF GetProp(v, keys[i]) \in {Undef, Throw} THEN TRUE
    ELSE KeyMissingFrom(GetProp(v, keys[i]), keys, i + 1)

KeyMissingOfArgs ==
    KeyMissingFrom(args.data, Split(GetProp(args.condition, K("field")).v), 1)

\* C7: resolving a dot-path never throws; when a key on the way is missing
\* (missing section, null or primitive in between) the result is undefined
\* and the condition is evaluated on undefined.
C7_LookupNeverThrows ==
    /\ ret.val # Throw
    /\ (ret.fn = "getNestedValue" /\ KeyMissingOfArgs) => ret.val = Undef
    /\ (ret.fn = "evaluateCondition" /\ KeyMissingOfArgs) =>
          ret.val = Bool(ApplyOperator(OperatorOfArgs, Undef, OperandOfArgs))

\* a path through a section whose value is null
C7_Witness ==
    /\ ret.fn = "getNestedValue"
    /\ GetProp(args.data, K("s1")) = Null
    /\ GetProp(args.condition, K("field")) = Str(Dot(K("s1"), K("f1")))
    /\ ret.val = Undef

----------------------------------------------------------------------------
(* Specification of the option resolver: one field, one form data *)

Entry(options, names) ==
    ObjOf(K("enum") :> options @@ K("enumNames") :> names)

EntryA == Entry(Arr(<<S("p"), S("q")>>), Arr(<<S("P"), S("Q")>>))
EntryB == Entry(Arr(<<S("r")>>), Undef)
EntryC == Entry(Arr(<<>>), Undef)

\* mappings keyed by the values the source field can hold
MappingInputs ==
    {EmptyObj,
     ObjOf(K("a") :> EntryA),
     ObjOf(K("a") :> EntryA @@ K("b") :> EntryB),
     ObjOf(K("a") :> EntryC @@ K("2") :> EntryB),
     ObjOf(K("true") :> EntryA @@ K("false") :> EntryB),
     ObjOf(K("0") :> EntryA @@ K("1") :> EntryB),
     ObjOf(<<>> :> EntryB)}

EnumSourceInputs ==
    {Undef}
    \cup {ObjOf(K("field") :> Str(Dot(K("s1"), K("f1"))) @@ K("mapping") :> m)
            : m \in MappingInputs}

\* enum with enumNames: none, full, shorter than the enum, or names alone
StaticEnumInputs ==
    {<<Undef, Undef>>, <<Arr(<<>>), Undef>>,
     <<Arr(<<S("x"), S("y")>>), Undef>>,
     <<Arr(<<S("x"), S("y")>>), Arr(<<S("X"), S("Y")>>)>>,
     <<Arr(<<S("x"), S("y")>>), Arr(<<S("X")>>)>>,
     <<Undef, Arr(<<S("X"), S("Y")>>)>>}

FieldInputs ==
    {ObjOf(K("type") :> type @@ K("enum") :> e[1] @@ K("enumNames") :> e[2]
           @@ UI("widget") :> widget @@ UI("enumSource") :> src)
        : type \in {S("string"), S("boolean")},
          e \in StaticEnumInputs,
          widget \in {Undef, S("radio"), S("select")},
          src \in EnumSourceInputs}

EnumData ==
    {EmptyObj, ObjOf(K("s1") :> Null), ObjOf(K("s1") :> EmptyObj)}
    \cup {ObjOf(K("s1") :> ObjOf(K("f1") :> v)) : v \in LeafValues}

InitEnum ==
    /\ args \in [field : FieldInputs, data : EnumData]
    /\ ret = NoCall
    /\ Idle

CallGetDynamicEnumOptions ==
    /\ ret = NoCall
    /\ ret' = Called("getDynamicEnumOptions", getDynamicEnumOptions(args.field, args.data))
    /\ UNCHANGED <<args, IdleVars>>

CallGetInputType ==
    /\ ret = NoCall
    /\ ret' = Called("getInputType", getInputType(args.field))
    /\ UNCHANGED <<args, IdleVars>>

CallEnumOptions ==
    /\ ret = NoCall
    /\ ret' = Called("enumOptions", enumOptions(args.field, args.data))
    /\ UNCHANGED <<args, IdleVars>>

CallOptionLabels ==
    /\ ret = NoCall
    /\ ret' = Called("optionLabels", optionLabels(args.field, args.data))
    /\ UNCHANGED <<args, IdleVars>>

NextEnum ==
    \/ CallGetDynamicEnumOptions
    \/ CallGetInputType
    \/ CallEnumOptions
    \/ CallOptionLabels

SpecEnum == InitEnum /\ [][NextEnum]_vars

----------------------------------------------------------------------------
(* Properties of the option resolver (SpecEnum) *)

SourceOfArgs == GetProp(args.field, UI("enumSource"))

SourceValueOfArgs ==
    getNestedValue(args.data, GetProp(SourceOfArgs, K("field")).v)

\* the mapping has an entry for the value the source field holds now
MappingHasEntry ==
    /\ SourceOfArgs # Undef
    /\ SourceValueOfArgs # Undef
    /\ PropertyKey(SourceValueOfArgs) \in DOMAIN GetProp(SourceOfArgs, K("mapping")).v

MappingEntry ==
    GetProp(SourceOfArgs, K("mapping")).v[PropertyKey(SourceValueOfArgs)]

\* C9: the options of a field are the enum of the mapping entry of the source
\* value when there is one, else the static enum when there is one, else
\* [true, false] for a boolean field shown as radio, else the empty list.
C9_OptionFallbackOrder ==
    ret.fn = "enumOptions" =>
        ret.val =
            IF MappingHasEntry THEN GetProp(MappingEntry, K("enum"))
            ELSE IF GetProp(args.field, K("enum")) # Undef
                 THEN GetProp(args.field, K("enum"))
            ELSE IF /\ GetProp(args.field, K("type")) = S("boolean")
                    /\ GetProp(args.field, UI("widget")) = S("radio")
                 THEN Arr(<<True, False>>)
            ELSE Arr(<<>>)

\* C10: getDynamicEnumOptions returns the mapping entry of the source value
\* whenever there is one, whatever the value (0, false and '' included), and
\* null only when there is no source descriptor or no entry for the value.
C10_DynamicEntryForExactValue ==
    ret.fn = "getDynamicEnumOptions" =>
        /\ MappingHasEntry => ret.val = MappingEntry
        /\ ret.val = Null => ~MappingHasEntry

\* the tier the options come from, and the enumNames of that tier
DynamicOfArgs == getDynamicEnumOptions(args.field, args.data)

OptionTier ==
    IF Truthy(OptionalProp(DynamicOfArgs, K("enum"))) THEN "dynamic"
    ELSE IF Truthy(GetProp(args.field, K("enum"))) THEN "static"
    ELSE IF /\ GetProp(args.field, K("type")) = S("boolean")
            /\ getInputType(args.field) = S("radio") THEN "synthetic"
    ELSE "none"

TierNames ==
    CASE OptionTier = "dynamic" -> OptionalProp(DynamicOfArgs, K("enumNames"))
      [] OptionTier = "static" -> GetProp(args.field, K("enumNames"))
      [] OptionTier = "synthetic" -> Arr(<<S("Yes"), S("No")>>)
      [] OTHER -> Undef

\* C11: the label of option i is the name its own tier gives at position i,
\* and the stringified option when that tier gives none there; it is never a
\* name of another tier nor one of the synthetic Yes/No.
C11_LabelsBelongToOptionTier ==
    ret.fn = "optionLabels" =>
        \A i \in 1..Len(ret.val.v) :
            ret.val.v[i] =
                IF Truthy(ElementAt(TierNames, i - 1))
                THEN TextOf(ElementAt(TierNames, i - 1))
                ELSE TextOf(ElementAt(enumOptions(args.field, args.data), i - 1))

----------------------------------------------------------------------------
(* Specification of the widget choice: one field *)

WidgetFieldInputs ==
    {ObjOf(K("type") :> type @@ K("format") :> format @@ K("enum") :> enum
           @@ UI("widget") :> widget)
        : type \in {Undef, S("string"), S("number"), S("integer"), S("boolean")},
          format \in {Undef, S("date"), S("email"), S("uri"), S("url"), S("phone")},
          enum \in {Undef, Arr(<<>>), Arr(<<S("x"), S("y")>>)},
          widget \in {Undef, Str(<<>>), S("radio"), S("textarea")}}

InitWidget ==
    /\ args \in [field : WidgetFieldInputs, data : {EmptyObj}]
    /\ ret = NoCall
    /\ Idle

NextWidget == CallGetInputType

SpecWidget == InitWidget /\ [][NextWidget]_vars

\* the widget each level of the precedence gives, Undef when the level is silent
WidgetOfHint(field) ==
    IF Truthy(GetProp(field, UI("widget"))) THEN GetProp(field, UI("widget")) ELSE Undef

WidgetOfEnum(field) ==
    IF GetProp(field, K("enum")).t = "array" THEN S("select") ELSE Undef

WidgetOfType(field) ==
    CASE GetProp(field, K("type")) = S("boolean") -> S("checkbox")
      [] GetProp(field, K("type")) \in {S("number"), S("integer")} -> S("text")
      [] OTHER -> Undef

WidgetOfFormat(field) ==
    CASE GetProp(field, K("format")) = S("date") -> S("date")
      [] GetProp(field, K("format")) = S("email") -> S("email")
      [] GetProp(field, K("format")) \in {S("uri"), S("url")} -> S("url")
      [] OTHER -> Undef

----------------------------------------------------------------------------
(* Specification of the normalizer and the validator: one schema, one data *)

WithProps(base, extra) == ObjOf(extra @@ base.v)

StringField == ObjOf(K("type") :> S("string") @@ K("title") :> S("T"))
NumberField == ObjOf(K("type") :> S("number") @@ K("title") :> S("T"))
RequiredField == WithProps(StringField, K("required") :> True)
OptionalField == WithProps(StringField, K("required") :> False @@ UI("help") :> S("h"))
PatternField == WithProps(StringField, K("pattern") :> Str(<<"^", "a", "$">>))
PatternMessageField == WithProps(PatternField, UI("validationMessage") :> S("Letters only"))
MinimumField == WithProps(NumberField, K("minimum") :> Num(1000))
MinimumPlainField == WithProps(MinimumField, UI("format") :> S("none"))
MaximumField == WithProps(NumberField, K("maximum") :> Num(1000))
MaximumPlainField == WithProps(MaximumField, UI("format") :> S("none"))
EnumField == WithProps(StringField, K("enum") :> Arr(<<S("a"), S("b")>>))
UnknownTypeField == WithProps(StringField, K("type") :> S("text"))
BadPatternField == WithProps(StringField, K("pattern") :> Str(<<"(">>))
\* a field schema that itself carries a `sections` list whose entry has no properties
SectionedField == WithProps(StringField, K("sections") :> Arr(<<ObjOf(K("id") :> S("s1"))>>))

FieldSchemaInputs ==
    {StringField, RequiredField, OptionalField, PatternField, PatternMessageField,
     MinimumField, MinimumPlainField, MaximumField, MaximumPlainField, EnumField,
     UnknownTypeField, BadPatternField, SectionedField}

\* a section-based schema: section s1 with fields f1 and (optionally) f2,
\* section s2 with (optionally) field f1
SectionSchema(f1, f2, g1) ==
    ObjOf(K("type") :> S("object") @@ K("title") :> S("T") @@
          K("sections") :> Arr(<<
              ObjOf(K("id") :> S("s1") @@ K("title") :> S("T") @@
                    K("properties") :> ObjOf(K("f1") :> f1 @@ K("f2") :> f2)),
              ObjOf(K("id") :> S("s2") @@ K("title") :> S("T") @@
                    UI("show") :> ObjOf(K("conditions") :> Arr(<<>>)) @@
                    K("properties") :> ObjOf(K("f1") :> g1))>>))

SectionSchemaInputs ==
    {SectionSchema(f1, f2, g1) : f1 \in FieldSchemaInputs \ {SectionedField},
                                 f2 \in {Undef, StringField, RequiredField},
                                 g1 \in {Undef, StringField, RequiredField}}

ValueInputs == {Undef, S("a"), S("c"), Str(<<>>), Num(5), Num(2000)}

\* form data for a section-based schema: nested by section, or flat under the
\* composite key
FormDataInputs ==
    {EmptyObj, ObjOf(K("s1") :> EmptyObj)}
    \cup {ObjOf(K("s1") :> ObjOf(K("f1") :> v)) : v \in ValueInputs \ {Undef}}
    \cup {ObjOf(Dot(K("s1"), K("f1")) :> v) : v \in ValueInputs \ {Undef}}

\* a schema without sections: property x, and any other property an object
\* with field z
OpenSchema(z) ==
    ObjOf(K("type") :> S("object") @@
          K("properties") :> ObjOf(K("x") :> StringField) @@
          K("additionalProperties") :>
              ObjOf(K("type") :> S("object") @@ K("properties") :> ObjOf(K("z") :> z)))

\* a schema without sections: property a, an object with field b
NestedSchema(b) ==
    ObjOf(K("type") :> S("object") @@
          K("properties") :>
              ObjOf(K("a") :> ObjOf(K("type") :> S("object") @@
                                    K("properties") :> ObjOf(K("b") :> b))))

\* a schema without sections that requires its property x
RequiringSchema ==
    ObjOf(K("type") :> S("object") @@
          K("properties") :> ObjOf(K("x") :> StringField) @@
          K("required") :> Arr(<<S("x")>>))

PlainSchemaInputs ==
    {OpenSchema(z) : z \in {StringField, PatternField, PatternMessageField}}
    \cup {RequiringSchema}
    \cup {NestedSchema(b) : b \in {StringField, PatternField, PatternMessageField, BadPatternField}}

PlainDataInputs ==
    {ObjOf(K("y") :> ObjOf(K("z") :> v)) : v \in {S("a"), S("c")}}
    \cup {ObjOf(K("a") :> ObjOf(K("b") :> v)) : v \in {S("a"), S("c")}}
    \cup {ObjOf(K("x") :> v) : v \in {S("a"), Num(5)}}

ValidateInputs ==
    [kind : {"form"}, schema : SectionSchemaInputs, data : FormDataInputs]
    \cup [kind : {"form"}, schema : PlainSchemaInputs, data : PlainDataInputs]
    \cup [kind : {"field"}, schema : FieldSchemaInputs \cup {Undef}, data : ValueInputs]

InitValidate ==
    /\ args \in ValidateInputs
    /\ ret = NoCall
    /\ Idle

CallStripUIExtensions ==
    /\ ret = NoCall
    /\ args.schema # Undef
    /\ ret' = Called("stripUIExtensions", stripEffect(args.schema))
    /\ UNCHANGED <<args, IdleVars>>

CallValidateFormData ==
    /\ ret = NoCall
    /\ args.kind = "form"
    /\ ret' = Called("validateFormData", validateFormDataEffect(args.schema, args.data))
    /\ UNCHANGED <<args, IdleVars>>

CallValidateField ==
    /\ ret = NoCall
    /\ args.kind = "field"
    /\ ret' = Called("validateField", validateFieldEffect(args.schema, args.data))
    /\ UNCHANGED <<args, IdleVars>>

NextValidate ==
    \/ CallStripUIExtensions
    \/ CallValidateFormData
    \/ CallValidateField

SpecValidate == InitValidate /\ [][NextValidate]_vars

----------------------------------------------------------------------------
(* Properties of the normalizer (SpecValidate) *)

\* the sections of the schema the call was given
SectionsOfArgs == GetProp(args.schema, K("sections"))

IsSectionBased == args.kind = "form" /\ SectionsOfArgs.t = "array"

\* the (section index, field key) pairs of the schema the call was given
FieldPairs ==
    UNION {{<<i, k>> : k \in DOMAIN GetProp(SectionsOfArgs.v[i], K("properties")).v} :
           i \in 1..Len(SectionsOfArgs.v)}

FieldOfPair(p) == GetProp(SectionsOfArgs.v[p[1]], K("properties")).v[p[2]]

CompositeKey(p) == PropertyKey(GetProp(SectionsOfArgs.v[p[1]], K("id"))) \o <<".">> \o p[2]

RequiredPairs == {p \in FieldPairs : GetProp(FieldOfPair(p), K("required")) = True}

\* p comes before q in section-then-field order
PairBefore(p, q) == p[1] < q[1] \/ (p[1] = q[1] /\ KeyBefore(p[2], q[2]))

\* C12: for a section-based schema stripUIExtensions returns a schema with no
\* `sections` key, whose `properties` has exactly one entry per (section,
\* field) pair under the key "<sectionId>.<fieldKey>", and whose `required`
\* holds exactly the composite keys of the fields with required: true, in
\* section-then-field order.
C12_FlatteningIsExact ==
    (ret.fn = "stripUIExtensions" /\ IsSectionBased) =>
        LET out == ret.val.val
            properties == GetProp(out, K("properties"))
            required == GetProp(out, K("required"))
        IN  /\ out.t = "object"
            /\ K("sections") \notin DOMAIN out.v
            /\ properties.t = "object"
            /\ DOMAIN properties.v = {CompositeKey(p) : p \in FieldPairs}
            /\ Cardinality(DOMAIN properties.v) = Cardinality(FieldPairs)
            /\ required.t = "array"
            /\ {required.v[i] : i \in 1..Len(required.v)}
                   = {Str(CompositeKey(p)) : p \in RequiredPairs}
            /\ Len(required.v) = Cardinality(RequiredPairs)
            /\ \A i, j \in 1..Len(required.v) : i < j =>
                   \E p, q \in RequiredPairs :
                       /\ required.v[i] = Str(CompositeKey(p))
                       /\ required.v[j] = Str(CompositeKey(q))
                       /\ PairBefore(p, q)

\* a schema with three fields in two sections, two of them required, flattened
C12_Witness ==
    /\ ret.fn = "stripUIExtensions"
    /\ IsSectionBased
    /\ Cardinality(FieldPairs) = 3
    /\ Cardinality(RequiredPairs) = 2
    /\ \E p, q \in RequiredPairs : p[1] # q[1]
    /\ GetProp(ret.val.val, K("required")) = Arr(<<Str(<<"s1", ".", "f2">>), Str(<<"s2", ".", "f1">>)>>)

----------------------------------------------------------------------------
(* Properties of the validator (SpecValidate) *)

\* the required fields of the schema whose value the form data lacks, both
\* nested under the section and under the composite key
MissingRequiredPairs ==
    {p \in RequiredPairs :
        /\ getNestedValue(args.data, CompositeKey(p)) = Undef
        /\ GetProp(args.data, CompositeKey(p)) = Undef}

\* the messages the returned errors map lists under key
MessagesUnder(result, key) ==
    IF key \in DOMAIN GetProp(result, K("errors")).v
    THEN GetProp(result, K("errors")).v[key].v ELSE <<>>

EndsWith(message, tok) == message.v # <<>> /\ message.v[Len(message.v)] = tok

\* C14: for a section-based schema with a required field f in section s and
\* form data that lacks s.f, validateFormData returns valid = false and lists
\* under 's.f' a message ending in "is required"; nothing is listed under 's'
\* or 'root'.
C14_RequiredIsReportedAtTheField ==
    (ret.fn = "validateFormData" /\ IsSectionBased) =>
        \A p \in MissingRequiredPairs :
            /\ ret.val.val # Throw
            /\ GetProp(ret.val.val, K("valid")) = False
            /\ \E i \in 1..Len(MessagesUnder(ret.val.val, CompositeKey(p))) :
                   EndsWith(MessagesUnder(ret.val.val, CompositeKey(p))[i], " is required")
            /\ MessagesUnder(ret.val.val, PropertyKey(GetProp(SectionsOfArgs.v[p[1]], K("id")))) = <<>>
            /\ MessagesUnder(ret.val.val, K("root")) = <<>>

\* the fields whose value, as the engine reads it under the composite key, is
\* a string that does not match the field's pattern
PatternFailurePairs ==
    {p \in FieldPairs :
        /\ GetProp(FieldOfPair(p), K("pattern")).t = "string"
        /\ ~RegExpRaises(GetProp(FieldOfPair(p), K("pattern")).v)
        /\ GetProp(args.data, CompositeKey(p)).t = "string"
        /\ ~RegExpTest(GetProp(FieldOfPair(p), K("pattern")).v, GetProp(args.data, CompositeKey(p)).v)}

CustomMessageOf(field) == GetProp(field, UI("validationMessage"))

IsListed(messages, message) == \E i \in 1..Len(messages) : messages[i] = message

\* C15: in whole-form validation of a section-based schema a pattern failure
\* on a field is reported with the field's ui:validationMessage when it
\* declares one, and with "Invalid format" only when it declares none.
C15_PatternFailureUsesCustomMessage ==
    (ret.fn = "validateFormData" /\ IsSectionBased /\ ret.val.val # Throw) =>
        \A p \in PatternFailurePairs :
            LET messages == MessagesUnder(ret.val.val, CompositeKey(p))
            IN  IF Truthy(CustomMessageOf(FieldOfPair(p)))
                THEN /\ IsListed(messages, CustomMessageOf(FieldOfPair(p)))
                     /\ ~IsListed(messages, Str(<<"Invalid format">>))
                ELSE IsListed(messages, Str(<<"Invalid format">>))

\* the schema, normalized, is one the engine compiles
SchemaCompiles ==
    /\ stripUIExtensions(args.schema) # Throw
    /\ ~CompileRaises(stripUIExtensions(args.schema))

\* the pattern failures of the engine's run on the form data
PatternFailures ==
    SelectSeq(AjvValidate(stripUIExtensions(args.schema), args.data, <<>>),
              LAMBDA e : e.keyword = "pattern")

\* C16: the custom-message lookup of validateFormData for a pattern failure
\* never throws, whatever the schema and the failure path: a call whose engine
\* run reports a pattern failure still returns.
C16_MessageLookupNeverThrows ==
    (ret.fn = "validateFormData" /\ SchemaCompiles /\ PatternFailures # <<>>) =>
        ret.val.val # Throw

\* the limit of a field as the message is to show it
LimitText(field, limit) ==
    IF GetProp(field, UI("format")) = S("none") THEN NumToString(limit)
    ELSE GroupDigits(NumToString(limit))

BelowMinimum(field, value) ==
    value.t = "number" /\ GetProp(field, K("minimum")).t = "number"
        /\ value.v < GetProp(field, K("minimum")).v

AboveMaximum(field, value) ==
    value.t = "number" /\ GetProp(field, K("maximum")).t = "number"
        /\ value.v > GetProp(field, K("maximum")).v

\* the minimum and maximum messages are among `messages` when the value
\* breaks the limit
LimitMessagesListed(field, value, messages) ==
    /\ BelowMinimum(field, value) =>
           IsListed(messages, Str(<<"Value must be at least ">>
                                  \o LimitText(field, GetProp(field, K("minimum")).v)))
    /\ AboveMaximum(field, value) =>
           IsListed(messages, Str(<<"Value must be at most ">>
                                  \o LimitText(field, GetProp(field, K("maximum")).v)))

\* C17: for a minimum or maximum failure validateFormData and validateField
\* both report "Value must be at least <limit>" / "Value must be at most
\* <limit>", the limit in grouped digits unless the field declares
\* ui:format 'none', and then ungrouped.
C17_LimitMessagesHonourFormat ==
    /\ (ret.fn = "validateField" /\ ret.val.val # Throw /\ args.schema # Undef) =>
           LimitMessagesListed(args.schema, args.data, ret.val.val.v)
    /\ (ret.fn = "validateFormData" /\ IsSectionBased /\ ret.val.val # Throw) =>
           \A p \in FieldPairs :
               LimitMessagesListed(FieldOfPair(p), GetProp(args.data, CompositeKey(p)),
                                   MessagesUnder(ret.val.val, CompositeKey(p)))

\* the form schema with the one property f1, and form data giving it a value
FormOfField(field) ==
    Obj(K("type") :> S("object") @@ K("properties") :> Obj(K("f1") :> field))

DataOfValue(value) == Obj(K("f1") :> value)

\* C18: validateField and validateFormData use the same message table: the
\* messages validateField returns for a field and a value are the messages
\* validateFormData lists for that field holding that value.
C18_SameMessageTable ==
    (/\ ret.fn = "validateField"
     /\ args.schema # Undef
     /\ ret.val.val # Throw
     /\ validateFormData(FormOfField(args.schema), DataOfValue(args.data)) # Throw) =>
        ret.val.val.v =
            MessagesUnder(validateFormData(FormOfField(args.schema), DataOfValue(args.data)), K("f1"))

\* C19: validateField fails open: it returns an empty list when the field
\* schema is absent and when the engine raises on compiling or running, and
\* it never throws, whatever the field schema and the value.
C19_ValidateFieldFailsOpen ==
    (ret.fn = "validateField") =>
        /\ ret.val.val # Throw
        /\ args.schema = Undef => ret.val.val = Arr(<<>>)
        /\ (args.schema # Undef /\ stripUIExtensions(args.schema) # Throw
                /\ CompileRaises(WrapperSchema(args.schema,
                                               CleanFieldSchema(stripUIExtensions(args.schema)))))
               => ret.val.val = Arr(<<>>)

\* C20: validateFormData lets a compile error of the engine reach its caller,
\* and a failure of the data against a schema that compiles is never thrown
\* but returned as {valid: false, errors}.
C20_CompileErrorsPropagateDataFailuresReturn ==
    (ret.fn = "validateFormData" /\ stripUIExtensions(args.schema) # Throw) =>
        IF CompileRaises(stripUIExtensions(args.schema))
        THEN ret.val.val = Throw
        ELSE /\ ret.val.val # Throw
             /\ AjvValidate(stripUIExtensions(args.schema), args.data, <<>>) # <<>> =>
                    /\ GetProp(ret.val.val, K("valid")) = False
                    /\ DOMAIN GetProp(ret.val.val, K("errors")).v # {}

\* the form data stores values by section: every key is a section id
IsNestedData ==
    \A k \in DOMAIN args.data.v :
        \E i \in 1..Len(SectionsOfArgs.v) : GetProp(SectionsOfArgs.v[i], K("id")) = Str(k)

\* the value the form stores for a field: data[s][f]
NestedValueOf(p) == getNestedValue(args.data, CompositeKey(p))

\* the value satisfies the constraints the field declares
Satisfies(field, value) ==
    IF value = Undef THEN GetProp(field, K("required")) # True
    ELSE /\ GetProp(field, K("type")) = S("string") => value.t = "string"
         /\ GetProp(field, K("type")) = S("number") => value.t = "number"
         /\ ~BelowMinimum(field, value)
         /\ ~AboveMaximum(field, value)
         /\ GetProp(field, K("enum")).t = "array" =>
                \E i \in 1..Len(GetProp(field, K("enum")).v) :
                    DeepEqual(GetProp(field, K("enum")).v[i], value)
         /\ (GetProp(field, K("pattern")).t = "string" /\ value.t = "string") =>
                RegExpTest(GetProp(field, K("pattern")).v, value.v)

\* C24: whole-form validation checks the values where the form stores them:
\* for a section-based schema and nested form data, validateFormData reports
\* valid exactly when every field's value data[s][f] satisfies the field's
\* constraints, and lists a violating value under 's.f'.
C24_NestedValuesAreValidated ==
    (ret.fn = "validateFormData" /\ IsSectionBased /\ IsNestedData /\ SchemaCompiles) =>
        /\ ret.val.val # Throw
        /\ GetProp(ret.val.val, K("valid")) = True
               <=> \A p \in FieldPairs : Satisfies(FieldOfPair(p), NestedValueOf(p))
        /\ \A p \in FieldPairs :
               ~Satisfies(FieldOfPair(p), NestedValueOf(p)) =>
                   MessagesUnder(ret.val.val, CompositeKey(p)) # <<>>

----------------------------------------------------------------------------
(* Specification of the readers of the form data: every core function that  *)
(* is handed the form data, called once on it                               *)

\* the outcome of a call that is handed form data which no statement of the
\* callee assigns to: its result, and the form data after the call
Reads(val, data) == [val |-> val, data |-> data]

FrameInputs ==
    [kind : {"rule"}, subject : RuleInputs, data : RuleData]
    \cup [kind : {"enum"},
          subject : {ObjOf(K("type") :> S("string") @@ UI("enumSource") :> src)
                        : src \in EnumSourceInputs},
          data : EnumData]
    \cup [kind : {"form"},
          subject : {SectionSchema(f1, Undef, Undef) : f1 \in FieldSchemaInputs \ {SectionedField}},
          data : FormDataInputs]
    \cup [kind : {"field"}, subject : FieldSchemaInputs, data : ValueInputs]

InitFrame ==
    /\ args \in FrameInputs
    /\ ret = NoCall
    /\ Idle

\* the rule of args, carried by a section or a field as its only rule
Carrying(key) == ObjOf(key :> args.subject)

FrameEvaluateCondition ==
    /\ ret = NoCall
    /\ args.kind = "rule"
    /\ HasConditions(args.subject)
    /\ ret' = Called("evaluateCondition",
                     Reads(evaluateCondition(ConditionsOf(args.subject).v[1], args.data), args.data))
    /\ UNCHANGED <<args, IdleVars>>

FrameEvaluateUIConditions ==
    /\ ret = NoCall
    /\ args.kind = "rule"
    /\ ret' = Called("evaluateUIConditions",
                     Reads(evaluateUIConditions(args.subject, args.data, TRUE), args.data))
    /\ UNCHANGED <<args, IdleVars>>

FrameShouldShowSection ==
    /\ ret = NoCall
    /\ args.kind = "rule"
    /\ ret' = Called("shouldShowSection",
                     Reads(shouldShowSection(Carrying(UI("show")), args.data), args.data))
    /\ UNCHANGED <<args, IdleVars>>

FrameShouldDisableSection ==
    /\ ret = NoCall
    /\ args.kind = "rule"
    /\ ret' = Called("shouldDisableSection",
                     Reads(shouldDisableSection(Carrying(UI("disabled")), args.data), args.data))
    /\ UNCHANGED <<args, IdleVars>>

FrameShouldShowField ==
    /\ ret = NoCall
    /\ args.kind = "rule"
    /\ ret' = Called("shouldShowField",
                     Reads(shouldShowField(Carrying(UI("show")), args.data), args.data))
    /\ UNCHANGED <<args, IdleVars>>

FrameShouldDisableField ==
    /\ ret = NoCall
    /\ args.kind = "rule"
    /\ ret' = Called("shouldDisableField",
                     Reads(shouldDisableField(Carrying(UI("disabled")), args.data, FALSE), args.data))
    /\ UNCHANGED <<args, IdleVars>>

FrameGetDynamicEnumOptions ==
    /\ ret = NoCall
    /\ args.kind = "enum"
    /\ ret' = Called("getDynamicEnumOptions",
                     Reads(getDynamicEnumOptions(args.subject, args.data), args.data))
    /\ UNCHANGED <<args, IdleVars>>

FrameValidateFormData ==
    /\ ret = NoCall
    /\ args.kind = "form"
    /\ ret' = Called("validateFormData",
                     [val |-> validateFormData(args.subject, args.data),
                      data |-> validateFormDataEffect(args.subject, args.data).data])
    /\ UNCHANGED <<args, IdleVars>>

FrameValidateField ==
    /\ ret = NoCall
    /\ args.kind = "field"
    /\ ret' = Called("validateField",
                     [val |-> validateField(args.subject, args.data),
                      data |-> validateFieldEffect(args.subject, args.data).data])
    /\ UNCHANGED <<args, IdleVars>>

NextFrame ==
    \/ FrameEvaluateCondition
    \/ FrameEvaluateUIConditions
    \/ FrameShouldShowSection
    \/ FrameShouldDisableSection
    \/ FrameShouldShowField
    \/ FrameShouldDisableField
    \/ FrameGetDynamicEnumOptions
    \/ FrameValidateFormData
    \/ FrameValidateField

SpecFrame == InitFrame /\ [][NextFrame]_vars

----------------------------------------------------------------------------
(* Formatica.svelte and FormSection.svelte: the form controller *)

\* `${sectionId}.${fieldKey}`
buildFieldPath(sectionId, fieldKey) == Dot(sectionId, fieldKey)

SectionsOf(sch) == GetProp(sch, K("sections")).v
SectionId(section) == GetProp(section, K("id")).v
FieldsOf(section) == GetProp(section, K("properties")).v

\* obj with obj[key] = value; storing undefined is modelled as an absent key,
\* which every reader of the form data treats alike
SetProp(obj, key, value) ==
    Obj([k \in (IF value = Undef THEN DOMAIN obj.v \ {key} ELSE DOMAIN obj.v \cup {key}) |->
            IF k = key THEN value ELSE obj.v[k]])

RECURSIVE InitSectionsFrom(_, _, _)
\* schema.sections.forEach(s => { if (!formData[s.id]) formData[s.id] = {} })
InitSectionsFrom(sections, data, i) ==
    IF i > Len(sections) THEN data
    ELSE InitSectionsFrom(sections,
            IF ~Truthy(GetProp(data, SectionId(sections[i])))
            THEN SetProp(data, SectionId(sections[i]), EmptyObj)
            ELSE data,
            i + 1)

\* the reactive block and the loop of handleReset left out
InitSectionsSkipped(sch, data) == data

InitSections(sch, data) == InitSectionsFrom(SectionsOf(sch), data, 1)

\* { ...initialData } copies the top level only: every section object of the
\* copy is the very object initialData holds
SharedSections(init) == {k \in DOMAIN init.v : init.v[k].t = "object"}

\* <<i, fieldKey>> for every field of every section
FieldRefs(sch) ==
    UNION {{<<i, fieldKey>> : fieldKey \in DOMAIN FieldsOf(SectionsOf(sch)[i])}
              : i \in 1..Len(SectionsOf(sch))}

PathOfRef(sch, r) == buildFieldPath(SectionId(SectionsOf(sch)[r[1]]), r[2])
FieldOfRef(sch, r) == FieldsOf(SectionsOf(sch)[r[1]])[r[2]]

\* the each-block of FormSection alone, as if Formatica mounted every section
MountedFieldsOfAnySection(sch, data) ==
    {PathOfRef(sch, r) : r \in
        {q \in FieldRefs(sch) : shouldShowField(FieldOfRef(sch, q), data) = True}}

\* the each-blocks of Formatica and FormSection: a FormField is mounted for a
\* field when its section passes {#if isVisible} and the field does too
MountedFields(sch, data) ==
    {PathOfRef(sch, r) : r \in
        {q \in FieldRefs(sch) :
            /\ shouldShowSection(SectionsOf(sch)[q[1]], data) = True
            /\ shouldShowField(FieldOfRef(sch, q), data) = True}}

\* the section and the field key a field path belongs to
SectionIndexOf(sch, path) ==
    CHOOSE i \in 1..Len(SectionsOf(sch)) :
        \E fieldKey \in DOMAIN FieldsOf(SectionsOf(sch)[i]) :
            buildFieldPath(SectionId(SectionsOf(sch)[i]), fieldKey) = path

FieldKeyOf(sch, path) ==
    CHOOSE fieldKey \in DOMAIN FieldsOf(SectionsOf(sch)[SectionIndexOf(sch, path)]) :
        buildFieldPath(SectionId(SectionsOf(sch)[SectionIndexOf(sch, path)]), fieldKey) = path

SectionAt(sch, path) == SectionsOf(sch)[SectionIndexOf(sch, path)]
FieldAt(sch, path) == FieldsOf(SectionAt(sch, path))[FieldKeyOf(sch, path)]

\* disabled={isDisabled} of each mounted FormField, the section's
\* disabled={isDisabled} being passed to shouldDisableField
DisabledProps(sch, data) ==
    [path \in MountedFields(sch, data) |->
        shouldDisableField(FieldAt(sch, path), data,
                           shouldDisableSection(SectionAt(sch, path), data) = True) = True]

Field(type, show, disabled) ==
    ObjOf(K("type") :> type @@ UI("show") :> show @@ UI("disabled") :> disabled)

Section(id, properties, show, disabled) ==
    ObjOf(K("id") :> Str(id) @@ K("title") :> Str(id) @@ K("properties") :> properties
          @@ UI("show") :> show @@ UI("disabled") :> disabled)

Schema(sections) ==
    ObjOf(K("type") :> S("object") @@ K("title") :> S("form") @@ K("sections") :> Arr(sections))

\* rules over the fields of section s1
ShowRuleInputs ==
    {Undef,
     Rule(Arr(<<Condition(Dot(K("s1"), K("f1")), S("equals"), S("a"))>>), Undef),
     Rule(Arr(<<Condition(Dot(K("s1"), K("f1")), S("equals"), S("b")),
                Condition(Dot(K("s1"), K("f2")), S("greater_than"), Num(0))>>), S("or"))}

DisabledRuleInputs ==
    {Undef,
     Rule(Arr(<<Condition(Dot(K("s1"), K("f1")), S("in"), Arr(<<S("b")>>))>>), S("and"))}

SchemaInputs ==
    {Schema(<<Section(K("s1"),
                      ObjOf(K("f1") :> Field(S("string"), Undef, Undef)
                            @@ K("f2") :> Field(S("number"), Undef, d1)),
                      Undef, Undef),
              Section(K("s2"),
                      ObjOf(K("f1") :> Field(S("string"), r2, d2)),
                      r3, d3)>>)
        : d1 \in DisabledRuleInputs, r2 \in ShowRuleInputs, d2 \in DisabledRuleInputs,
          r3 \in ShowRuleInputs, d3 \in DisabledRuleInputs}

InitialDataInputs ==
    {EmptyObj,
     ObjOf(K("s1") :> ObjOf(K("f1") :> S("a"))),
     ObjOf(K("s1") :> ObjOf(K("f1") :> S("b")) @@ K("s2") :> ObjOf(K("f1") :> S("a"))),
     ObjOf(K("s1") :> ObjOf(K("f2") :> Num(1)) @@ K("s2") :> Null)}

\* inputType
IsChoiceWidget(field) == getInputType(field) \in {S("select"), S("radio")}

\* the widgets whose element carries on:blur={handleBlur}
HasBlurHandler(field) ==
    getInputType(field) \notin {S("select"), S("textarea"), S("checkbox"), S("radio")}

IsNumberField(field) == GetProp(field, K("type")) \in {S("number"), S("integer")}

\* what handleInput dispatches for an input event on the field: an option on
\* offer (or the empty choice of a select) for a choice widget; for a number
\* field undefined (emptied), a number, or the text typed when it is no number;
\* for any other field the text
InputValues(field, data) ==
    IF IsChoiceWidget(field)
    THEN (IF getInputType(field) = S("select") THEN {Str(<<>>)} ELSE {})
         \cup (IF enumOptions(field, data).t = "array"
               THEN {enumOptions(field, data).v[i] : i \in 1..Len(enumOptions(field, data).v)}
               ELSE {})
    ELSE IF IsNumberField(field) THEN {Undef, Num(0), Num(1), S("x")}
    ELSE {Str(<<>>), S("a"), S("b")}

\* `Please enter a valid ${field.type === 'integer' ? 'whole number' : 'number'}`
InvalidNumberMessage(field) ==
    IF GetProp(field, K("type")) = S("integer")
    THEN Str(<<"Please enter a valid ", "whole number">>)
    ELSE Str(<<"Please enter a valid ", "number">>)

\* localErrors as handleInput leaves it: set for a number field, untouched
\* for any other
InputErrors(field, value, old) ==
    IF ~IsNumberField(field) THEN old
    ELSE IF value.t = "string" THEN <<InvalidNumberMessage(field)>>
    ELSE <<>>

\* localErrors as handleBlur leaves it, as an array, or Throw; a number field
\* shows the text of its value, '' when it has none
BlurErrors(field, value, old) ==
    IF IsNumberField(field) THEN
        IF value.t = "undefined" \/ value = Str(<<>>) THEN Arr(<<>>)
        ELSE IF value.t # "number" THEN Arr(<<InvalidNumberMessage(field)>>)
        ELSE validateField(field, value)
    ELSE IF GetProp(field, K("type")) = S("string") THEN validateField(field, value)
    ELSE Arr(old)

\* the localErrors of the FormFields mounted after a render: a FormField that
\* stays mounted keeps its own, a newly mounted one starts with none
LocalErrorsAfter(old, mounted) ==
    [path \in mounted |-> IF path \in DOMAIN old THEN old[path] ELSE <<>>]

\* the prop validateOnChange, at its default
validateOnChange == FALSE

Init ==
    /\ args = Undef
    /\ ret = NoCall
    /\ schema \in SchemaInputs
    /\ initialData \in InitialDataInputs
    /\ formData = InitSections(schema, initialData)
    /\ aliased = SharedSections(initialData)
    /\ errors = EmptyObj
    /\ rendered = MountedFields(schema, formData)
    /\ disabledOf = DisabledProps(schema, formData)
    /\ localErrors = [path \in MountedFields(schema, formData) |-> <<>>]
    /\ createdWith = initialData

\* FormField.handleInput on a mounted and enabled FormField, the
\* FormSection.handleFieldChange its input event raises, and the re-rendering
\* the assignment to formData causes
HandleFieldChange(path, value) ==
    LET sectionId == SectionId(SectionAt(schema, path))
        fieldKey == FieldKeyOf(schema, path)
        fresh == ~Truthy(GetProp(formData, sectionId))
        target == IF fresh THEN EmptyObj ELSE GetProp(formData, sectionId)
        changed == SetProp(target, fieldKey, value)
    IN  /\ path \in rendered
        /\ ~disabledOf[path]
        /\ target.t = "object"
        /\ ~validateOnChange
        /\ \E data \in {InitSections(schema, SetProp(formData, sectionId, changed))} :
           \E mounted \in {MountedFields(schema, data)} :
              /\ formData' = data
              /\ rendered' = mounted
              /\ disabledOf' = DisabledProps(schema, data)
              /\ localErrors' = LocalErrorsAfter(
                    [localErrors EXCEPT ![path] = InputErrors(FieldAt(schema, path), value, @)],
                    mounted)
        /\ initialData' = IF sectionId \in aliased /\ ~fresh
                          THEN SetProp(initialData, sectionId, changed)
                          ELSE initialData
        /\ aliased' = IF fresh THEN aliased \ {sectionId} ELSE aliased
        /\ ret' = NoCall
        /\ UNCHANGED <<args, schema, errors, createdWith>>

\* FormField.handleBlur on a mounted and enabled text input.  For a number it
\* dispatches the value the field already holds, which leaves formData as it is.
HandleBlur(path) ==
    /\ path \in rendered
    /\ ~disabledOf[path]
    /\ HasBlurHandler(FieldAt(schema, path))
    /\ \E field \in {FieldAt(schema, path)}, value \in {getNestedValue(formData, path)} :
       \E after \in {BlurErrors(field, value, localErrors[path])} :
          /\ localErrors' = IF after.t = "throw" THEN localErrors
                            ELSE [localErrors EXCEPT ![path] = after.v]
          /\ ret' = IF after.t = "throw" THEN Called("handleBlur", Throw) ELSE NoCall
    /\ UNCHANGED <<args, schema, initialData, formData, aliased, errors, rendered, disabledOf,
                   createdWith>>

\* Formatica.handleSubmit: validateFormData is not guarded, so what it throws
\* leaves the handler; onSubmit is called with formData when it is valid
HandleSubmit ==
    /\ \E validation \in {validateFormData(schema, formData)} :
          /\ errors' = IF validation.t = "throw" THEN errors
                       ELSE GetProp(validation, K("errors"))
          /\ ret' = IF validation.t = "throw" THEN Called("handleSubmit", Throw)
                    ELSE IF GetProp(validation, K("valid")) = True
                         THEN Called("onSubmit", formData)
                    ELSE Called("handleSubmit", Undef)
    /\ UNCHANGED <<args, schema, initialData, formData, aliased, rendered, disabledOf,
                   localErrors, createdWith>>

\* Formatica.handleReset and the re-rendering it causes
HandleReset ==
    /\ \E data \in {InitSections(schema, initialData)} :
       \E mounted \in {MountedFields(schema, data)} :
          /\ formData' = data
          /\ rendered' = mounted
          /\ disabledOf' = DisabledProps(schema, data)
          /\ localErrors' = LocalErrorsAfter(localErrors, mounted)
    /\ aliased' = SharedSections(initialData)
    /\ errors' = EmptyObj
    /\ ret' = NoCall
    /\ UNCHANGED <<args, schema, initialData, createdWith>>

Next ==
    \/ \E r \in FieldRefs(schema) :
          \E value \in InputValues(FieldOfRef(schema, r), formData) :
              HandleFieldChange(PathOfRef(schema, r), value)
    \/ \E r \in FieldRefs(schema) : HandleBlur(PathOfRef(schema, r))
    \/ HandleSubmit
    \/ HandleReset

Spec == Init /\ [][Next]_vars

\* ---- the controller over forms whose fields carry constraints ----

\* f1 of section s1 is a text field, f2 a number field
ConstrainedForm(f1, f2) ==
    Schema(<<Section(K("s1"), ObjOf(K("f1") :> f1 @@ K("f2") :> f2), Undef, Undef)>>)

\* f1 is a select of a and b; the options of the select f2 follow f1
DependentField ==
    WithProps(StringField,
              UI("widget") :> S("select")
              @@ UI("enumSource") :>
                    ObjOf(K("field") :> Str(Dot(K("s1"), K("f1")))
                          @@ K("mapping") :> ObjOf(K("a") :> EntryA @@ K("b") :> EntryB)))

DependentForm ==
    Schema(<<Section(K("s1"), ObjOf(K("f1") :> EnumField @@ K("f2") :> DependentField),
                     Undef, Undef)>>)

FormSchemaInputs ==
    {ConstrainedForm(f1, f2) :
        f1 \in {StringField, RequiredField, PatternField},
        f2 \in {NumberField, WithProps(NumberField, K("minimum") :> Num(1))}}
    \cup {DependentForm}

FormInitialDataInputs ==
    {EmptyObj,
     ObjOf(K("s1") :> ObjOf(K("f1") :> S("a"))),
     ObjOf(K("s1") :> ObjOf(K("f1") :> S("a") @@ K("f2") :> S("p")))}

InitForm ==
    /\ args = Undef
    /\ ret = NoCall
    /\ schema \in FormSchemaInputs
    /\ initialData \in FormInitialDataInputs
    /\ formData = InitSections(schema, initialData)
    /\ aliased = SharedSections(initialData)
    /\ errors = EmptyObj
    /\ rendered = MountedFields(schema, formData)
    /\ disabledOf = DisabledProps(schema, formData)
    /\ localErrors = [path \in MountedFields(schema, formData) |-> <<>>]
    /\ createdWith = initialData

SpecForm == InitForm /\ [][Next]_vars

----------------------------------------------------------------------------
(* Properties of the form controller (Spec) *)

\* C8: visibility does not cascade in the evaluator and is gated by the
\* render layer: a field without a ui:show rule is visible to shouldShowField
\* even inside a hidden section, and a FormField is mounted only when both its
\* section and the field itself evaluate as shown.
C8_VisibilityGatedByRenderLayer ==
    \A r \in FieldRefs(schema) :
        /\ PathOfRef(schema, r) \in rendered =>
              /\ shouldShowSection(SectionsOf(schema)[r[1]], formData) = True
              /\ shouldShowField(FieldOfRef(schema, r), formData) = True
        /\ GetProp(FieldOfRef(schema, r), UI("show")) = Undef =>
              shouldShowField(FieldOfRef(schema, r), formData) = True

\* after an input, a field that shouldShowField calls visible is not mounted
\* because its section is hidden
C8_Witness ==
    \E r \in FieldRefs(schema) :
        /\ formData # InitSections(schema, initialData)
        /\ shouldShowSection(SectionsOf(schema)[r[1]], formData) = False
        /\ shouldShowField(FieldOfRef(schema, r), formData) = True
        /\ PathOfRef(schema, r) \notin rendered
        /\ rendered # {}

\* C21: after initialisation and after every field change and reset, formData
\* holds an entry for every section id the schema declares, so that every rule
\* is evaluated over form data with all its sections.
C21_EverySectionHasAnEntry ==
    \A i \in 1..Len(SectionsOf(schema)) :
        /\ SectionId(SectionsOf(schema)[i]) \in DOMAIN formData.v
        /\ GetProp(formData, SectionId(SectionsOf(schema)[i])).t = "object"

\* initialData gives no object for section s2, a field of s1 was changed, and
\* formData holds an empty entry for s2
C21_Witness ==
    /\ ~Truthy(GetProp(initialData, K("s2")))
    /\ formData # InitSections(schema, initialData)
    /\ GetProp(formData, K("s2")) = EmptyObj
    /\ GetProp(formData, K("s1")) # EmptyObj

\* the value the form stores for the field
StoredValue(r) == getNestedValue(formData, PathOfRef(schema, r))

\* the schema declares a required field
HasRequiredField ==
    \E r \in FieldRefs(schema) : GetProp(FieldOfRef(schema, r), K("required")) = True

\* every field, the required ones included, holds a value that satisfies its
\* constraints
EveryFieldSatisfied ==
    \A r \in FieldRefs(schema) : Satisfies(FieldOfRef(schema, r), StoredValue(r))

\* the latest handler was handleSubmit
Submitted == ret.fn \in {"onSubmit", "handleSubmit"}

\* C25: handleSubmit calls onSubmit only when validateFormData reports the
\* form data valid, and then with the form data; and for a schema with
\* required fields, a submit made once the inputs have given every field a
\* value satisfying its constraints calls onSubmit with the form data.
C25_SubmitIsGatedAndCanSucceed ==
    /\ ret.fn = "onSubmit" =>
           /\ validateFormData(schema, formData).t # "throw"
           /\ GetProp(validateFormData(schema, formData), K("valid")) = True
           /\ ret.val = formData
    /\ (Submitted /\ HasRequiredField /\ EveryFieldSatisfied) =>
           ret = Called("onSubmit", formData)

\* C26: a reset restores the initial values and the caller's object is never
\* written: no step changes initialData from the value the form was created
\* with, and after handleReset on a form created with non-empty initialData,
\* formData equals that value with an empty entry for each declared section
\* it lacks.
C26_ResetRestoresInitialValues ==
    [][/\ initialData' = createdWith
       /\ (HandleReset /\ createdWith # EmptyObj) =>
              formData' = InitSections(schema, createdWith)]_vars

\* C27: after handleReset no validation message remains: the form-level
\* errors map is empty and the local error list of every mounted field,
\* whether an input or a blur on the field set it, is empty.
C27_ResetClearsEveryMessage ==
    [][HandleReset =>
           /\ errors' = EmptyObj
           /\ \A path \in DOMAIN localErrors' : localErrors'[path] = <<>>]_vars

\* the fields whose options follow another field
DependentRefs == {r \in FieldRefs(schema) : Truthy(GetProp(FieldOfRef(schema, r), UI("enumSource")))}

\* the value is among the options currently resolved for the field
IsOffered(r, value) ==
    /\ enumOptions(FieldOfRef(schema, r), formData).t = "array"
    /\ \E i \in 1..Len(enumOptions(FieldOfRef(schema, r), formData).v) :
           DeepEqual(enumOptions(FieldOfRef(schema, r), formData).v[i], value)

\* the field holds no choice: nothing stored, or the empty choice of the select
IsUnset(value) == value.t = "undefined" \/ value = Str(<<>>)

\* C28: the value stored for a field with a dynamic-enum source is unset or
\* one of the options currently resolved for it, in every state of the form
\* and so also after the source field changed and when the form data is
\* submitted.
C28_DependentValueIsAlwaysOffered ==
    \A r \in DependentRefs : IsUnset(StoredValue(r)) \/ IsOffered(r, StoredValue(r))

\* C29: every key of the errors map validateFormData returns maps to a
\* non-empty list of messages, the key `root` included, and the map is empty
\* exactly when valid is true.
C29_ErrorsMapHasNoEmptyList ==
    (ret.fn = "validateFormData" /\ ret.val.val.t # "throw") =>
        LET errs == GetProp(ret.val.val, K("errors"))
        IN  /\ \A key \in DOMAIN errs.v : errs.v[key].v # <<>>
            /\ DOMAIN errs.v = {} <=> GetProp(ret.val.val, K("valid")) = True

\* the schema ajv.compile is handed by validateFormData
CompiledSchema == stripUIExtensions(args.schema)

\* C30: in the schema validateFormData hands to the engine for a
\* section-based form, no flattened field schema under `properties` carries a
\* boolean `required` of its own: required-ness sits only in the parent's
\* `required` list.
C30_NoFieldLevelRequiredReachesTheEngine ==
    (ret.fn = "validateFormData" /\ IsSectionBased /\ CompiledSchema.t = "object") =>
        \A key \in DOMAIN GetProp(CompiledSchema, K("properties")).v :
            GetProp(GetProp(CompiledSchema, K("properties")).v[key], K("required")).t
                # "boolean"

=============================================================================
